---- MODULE Spec2Model ----
(***************************************************************************)
(* A model of the ezwallet back end: the dual-token authorization decision *)
(* (controllers/utils.js, verifyAuth), the login/logout handlers           *)
(* (controllers/auth.js), the user and group handlers                      *)
(* (controllers/users.js with controllers/group.utils.js) and the          *)
(* category/transaction handlers (controllers/controller.js).              *)
(***************************************************************************)
EXTENDS Integers, Sequences, FiniteSets, TLC

VARIABLES
    users,          \* the User collection: a sequence of user documents
    groups,         \* the Group collection: a sequence of group documents
    transactions,   \* the transactions collection: a set of documents
    categories,     \* the categories collection: a sequence of documents (creation order)
    cookie,         \* req.cookies of the request being served
    info,           \* the requirement handed to verifyAuth (or NoInfo)
    auth,           \* what verifyAuth did in this request (or NoAuth)
    res,            \* the response of the request: [op, status, ...]
    pc              \* "idle" before a request, "done" after one has been served

vars == <<users, groups, transactions, categories, cookie, info, auth, res, pc>>

----------------------------------------------------------------------------
(* Bounds of the model.                                                     *)

\* number of distinct principals (usernames u1.., emails e1..)
MaxPrincipals == 2

NamePool == <<"u1", "u2", "u3", "u4">>
MailPool == <<"e1", "e2", "e3", "e4">>

Usernames == {NamePool[i] : i \in 1..MaxPrincipals}
Emails == {MailPool[i] : i \in 1..MaxPrincipals}
Roles == {"Regular", "Admin"}
Ids == {"id1", "id2"}

\* A claim that is absent from a payload (undefined) or empty: falsy in JS.
Missing == ""

----------------------------------------------------------------------------
(* Tokens.  A cookie value is either absent or a JWT.  A JWT is described  *)
(* by what jwt.verify sees in it: whether the signature checks with        *)
(* ACCESS_KEY, whether its exp lies in the past, and its payload, with the *)
(* time of issue (iat) that jwt.sign adds to it.                           *)

NoToken ==
    [present |-> FALSE, sig |-> FALSE, expired |-> FALSE,
     username |-> Missing, email |-> Missing, role |-> Missing, id |-> Missing, iat |-> 0]

Jwt(sig, expired, username, email, role, id) ==
    [present |-> TRUE, sig |-> sig, expired |-> expired,
     username |-> username, email |-> email, role |-> role, id |-> id, iat |-> 0]

\* Variant: the role is not copied into the payload (it falls back to Regular).
jwtSignDefaultRole(username, email, id, role) == Jwt(TRUE, FALSE, username, email, "Regular", id)

\* jwt.sign(payload, ACCESS_KEY, {expiresIn}): a well-signed token that has
\* not expired yet.
jwtSign(username, email, id, role) == Jwt(TRUE, FALSE, username, email, role, id)

\* latest time of the clock (seconds 0..MaxClock)
MaxClock == 1

Clock == 0..MaxClock

\* Variant: the role is left out of the payload.
jwtSignAtNoRole(username, email, id, role, now) ==
    [jwtSign(username, email, id, Missing) EXCEPT !.iat = now]

\* jwt.sign at the time `now`: two tokens signed for the same payload are
\* the same string exactly when they are signed in the same second.
jwtSignAt(username, email, id, role, now) ==
    [jwtSign(username, email, id, role) EXCEPT !.iat = now]

\* The tokens a client can present.  The payload of a token whose signature
\* does not check is never read, so one payload stands for all of them.
SignedTokens ==
    {Jwt(TRUE, x, u, e, r, i) :
        x \in BOOLEAN, u \in Usernames \cup {Missing}, e \in Emails \cup {Missing},
        r \in Roles \cup {Missing}, i \in Ids}

TamperedTokens == {Jwt(FALSE, x, "u1", "e1", "Admin", "id1") : x \in BOOLEAN}

Tokens == {NoToken} \cup SignedTokens \cup TamperedTokens

\* jwt.verify(token, ACCESS_KEY): the signature is checked before the expiry.
jwtVerify(token) ==
    IF ~token.sig THEN [err |-> "JsonWebTokenError"]
    ELSE IF token.expired THEN [err |-> "TokenExpiredError"]
    ELSE [err |-> "none"]

----------------------------------------------------------------------------
(* Requirements (the `info` argument of verifyAuth).                       *)

NoInfo == [authType |-> "none", username |-> Missing, emails |-> {}]

Simple == [authType |-> "Simple", username |-> Missing, emails |-> {}]
Admin == [authType |-> "Admin", username |-> Missing, emails |-> {}]
User(u) == [authType |-> "User", username |-> u, emails |-> {}]
Group(es) == [authType |-> "Group", username |-> Missing, emails |-> es]

Requirements ==
    {Simple, Admin} \cup {User(u) : u \in Usernames} \cup {Group(es) : es \in SUBSET Emails}

----------------------------------------------------------------------------
(* verifyAuth.  A completion is what a block of code ends with: a return   *)
(* of a decision or a throw of an error; it carries the cookie and the     *)
(* advisory message set on the response and the tokens verified so far.    *)

Return(authorized, cause, verified) ==
    [kind |-> "return", authorized |-> authorized, cause |-> cause, err |-> "",
     accessCookie |-> NoToken, message |-> "", cookiesSet |-> {}, verified |-> verified]

Throw(err, verified) ==
    [kind |-> "throw", authorized |-> FALSE, cause |-> "", err |-> err,
     accessCookie |-> NoToken, message |-> "", cookiesSet |-> {}, verified |-> verified]

\* The response object handed to verifyAuth: res.cookie(name, value, options)
\* either sets the cookie or throws an error of the given name.
Response(cookieErr) == [cookieErr |-> cookieErr]

WorkingRes == Response("none")

RefreshedMessage ==
    "Access token has been refreshed. Remember to copy the new one in the headers of subsequent calls"

MissingInformation(t) == t.username = Missing \/ t.email = Missing \/ t.role = Missing

\* Variant: only the username is compared.
MismatchedUsernameOnly(a, r) == a.username # r.username

\* The claim-equality test between the two decoded tokens.
Mismatched(a, r) ==
    \/ a.username # r.username
    \/ a.email # r.email
    \/ a.role # r.role

\* Variant: the claims are compared before they are tested for presence.
outerTryCompareFirst(ck, inf) ==
    LET decodedAccessToken == ck.accessToken
        decodedRefreshToken == ck.refreshToken
        va == jwtVerify(ck.accessToken)
        vr == jwtVerify(ck.refreshToken)
    IN  IF va.err # "none" THEN Throw(va.err, <<"accessToken">>)
        ELSE IF vr.err # "none" THEN Throw(vr.err, <<"accessToken", "refreshToken">>)
        ELSE LET v == <<"accessToken", "refreshToken">> IN
             IF Mismatched(decodedAccessToken, decodedRefreshToken)
                THEN Return(FALSE, "Mismatched users", v)
             ELSE IF MissingInformation(decodedAccessToken)
                THEN Return(FALSE, "Token is missing information", v)
             ELSE IF MissingInformation(decodedRefreshToken)
                THEN Return(FALSE, "Token is missing information", v)
             ELSE IF /\ inf.authType = "Admin"
                     /\ (decodedAccessToken.role # "Admin" \/ decodedRefreshToken.role # "Admin")
                THEN Return(FALSE, "You need to be admin to perform this action", v)
             ELSE IF /\ inf.authType = "User"
                     /\ \/ decodedAccessToken.username # inf.username
                        \/ decodedRefreshToken.username # inf.username
                THEN Return(FALSE, "You cannot request info about another user", v)
             ELSE IF /\ inf.authType = "Group"
                     /\ ~(decodedAccessToken.email \in inf.emails
                          /\ decodedRefreshToken.email \in inf.emails)
                THEN Return(FALSE, "You cannot request info about a group you don't belong to", v)
             ELSE Return(TRUE, "Authorized", v)

\* The body of the outer try block: both tokens are verified and compared.
outerTry(ck, inf) ==
    LET decodedAccessToken == ck.accessToken
        decodedRefreshToken == ck.refreshToken
        va == jwtVerify(ck.accessToken)
        vr == jwtVerify(ck.refreshToken)
    IN  IF va.err # "none" THEN Throw(va.err, <<"accessToken">>)
        ELSE IF vr.err # "none" THEN Throw(vr.err, <<"accessToken", "refreshToken">>)
        ELSE LET v == <<"accessToken", "refreshToken">> IN
             IF MissingInformation(decodedAccessToken)
                THEN Return(FALSE, "Token is missing information", v)
             ELSE IF MissingInformation(decodedRefreshToken)
                THEN Return(FALSE, "Token is missing information", v)
             ELSE IF Mismatched(decodedAccessToken, decodedRefreshToken)
                THEN Return(FALSE, "Mismatched users", v)
             ELSE IF /\ inf.authType = "Admin"
                     /\ (decodedAccessToken.role # "Admin" \/ decodedRefreshToken.role # "Admin")
                THEN Return(FALSE, "You need to be admin to perform this action", v)
             ELSE IF /\ inf.authType = "User"
                     /\ \/ decodedAccessToken.username # inf.username
                        \/ decodedRefreshToken.username # inf.username
                THEN Return(FALSE, "You cannot request info about another user", v)
             ELSE IF /\ inf.authType = "Group"
                     /\ ~(decodedAccessToken.email \in inf.emails
                          /\ decodedRefreshToken.email \in inf.emails)
                THEN Return(FALSE, "You cannot request info about a group you don't belong to", v)
             ELSE Return(TRUE, "Authorized", v)

\* Variant: the renewal branch without the Group check.
innerTryNoGroupCheck(ck, inf, verified, rs) ==
    LET refreshToken == ck.refreshToken
        vr == jwtVerify(ck.refreshToken)
        v == Append(verified, "refreshToken")
    IN  IF vr.err # "none" THEN Throw(vr.err, v)
        ELSE IF MissingInformation(refreshToken)
            THEN Return(FALSE, "Token is missing information", v)
        ELSE IF inf.authType = "Admin" /\ refreshToken.role # "Admin"
            THEN Return(FALSE, "You need to be admin to perform this action", v)
        ELSE IF inf.authType = "User" /\ refreshToken.username # inf.username
            THEN Return(FALSE, "You cannot request info about another user", v)
        ELSE IF rs.cookieErr # "none"
            \* line 121: res.cookie throws, caught at line 124
            THEN Throw(rs.cookieErr, v)
        ELSE [Return(TRUE, "Authorized", v) EXCEPT
                !.accessCookie = jwtSign(refreshToken.username, refreshToken.email,
                                         refreshToken.id, refreshToken.role),
                !.cookiesSet = {"accessToken"},
                !.message = RefreshedMessage]

\* Variant: the new access token is issued before the requirement is tested.
innerTryCookieFirst(ck, inf, verified, rs) ==
    LET refreshToken == ck.refreshToken
        vr == jwtVerify(ck.refreshToken)
        v == Append(verified, "refreshToken")
        issued(c) == [c EXCEPT
                        !.accessCookie = jwtSign(refreshToken.username, refreshToken.email,
                                                 refreshToken.id, refreshToken.role),
                        !.cookiesSet = {"accessToken"},
                        !.message = RefreshedMessage]
    IN  IF vr.err # "none" THEN Throw(vr.err, v)
        ELSE IF MissingInformation(refreshToken)
            THEN Return(FALSE, "Token is missing information", v)
        ELSE IF rs.cookieErr # "none"
            THEN Throw(rs.cookieErr, v)
        ELSE IF inf.authType = "Admin" /\ refreshToken.role # "Admin"
            THEN issued(Return(FALSE, "You need to be admin to perform this action", v))
        ELSE IF inf.authType = "User" /\ refreshToken.username # inf.username
            THEN issued(Return(FALSE, "You cannot request info about another user", v))
        ELSE IF inf.authType = "Group" /\ ~(refreshToken.email \in inf.emails)
            THEN issued(Return(FALSE,
                               "You cannot request info about a group you don't belong to", v))
        ELSE issued(Return(TRUE, "Authorized", v))

\* The body of the inner try block: the refresh token alone is verified and
\* a new access token is issued from its claims.
innerTry(ck, inf, verified, rs) ==
    LET refreshToken == ck.refreshToken
        vr == jwtVerify(ck.refreshToken)
        v == Append(verified, "refreshToken")
    IN  IF vr.err # "none" THEN Throw(vr.err, v)
        ELSE IF MissingInformation(refreshToken)
            THEN Return(FALSE, "Token is missing information", v)
        ELSE IF inf.authType = "Admin" /\ refreshToken.role # "Admin"
            THEN Return(FALSE, "You need to be admin to perform this action", v)
        ELSE IF inf.authType = "User" /\ refreshToken.username # inf.username
            THEN Return(FALSE, "You cannot request info about another user", v)
        ELSE IF inf.authType = "Group" /\ ~(refreshToken.email \in inf.emails)
            THEN Return(FALSE, "You cannot request info about a group you don't belong to", v)
        ELSE IF rs.cookieErr # "none"
            \* line 121: res.cookie throws, caught at line 124
            THEN Throw(rs.cookieErr, v)
        ELSE [Return(TRUE, "Authorized", v) EXCEPT
                !.accessCookie = jwtSign(refreshToken.username, refreshToken.email,
                                         refreshToken.id, refreshToken.role),
                !.cookiesSet = {"accessToken"},
                !.message = RefreshedMessage]

\* Variant: no inner catch, the error propagates.
innerCatchRethrow(c) == c

\* Variant: the inner catch reports every error by name.
innerCatchByName(c) ==
    IF c.kind # "throw" THEN c ELSE Return(FALSE, c.err, c.verified)

\* The inner catch: an expired refresh token asks for a new login, any other
\* error is reported by name.
innerCatch(c) ==
    IF c.kind # "throw" THEN c
    ELSE IF c.err = "TokenExpiredError" THEN Return(FALSE, "Perform login again", c.verified)
    ELSE Return(FALSE, c.err, c.verified)

\* Variant: every error of the outer try starts the renewal.
outerCatchAnyError(c, ck, inf, rs) ==
    IF c.kind # "throw" THEN c
    ELSE innerCatch(innerTry(ck, inf, c.verified, rs))

\* The outer catch: an expired token starts the renewal, any other error is
\* reported by name.
outerCatch(c, ck, inf, rs) ==
    IF c.kind # "throw" THEN c
    ELSE IF c.err = "TokenExpiredError" THEN innerCatch(innerTry(ck, inf, c.verified, rs))
    ELSE Return(FALSE, c.err, c.verified)

\* Variant: only the access cookie is required to be present.
verifyAuthAccessOnly(ck, inf, rs) ==
    IF ~ck.accessToken.present
        THEN Return(FALSE, "Unauthorized", <<>>)
    ELSE outerCatch(outerTry(ck, inf), ck, inf, rs)

\* Variant: a live read of the store, the refresh token must be the one a
\* user currently stores.
verifyAuthStoredOnly(ck, inf, rs) ==
    IF ~ck.accessToken.present \/ ~ck.refreshToken.present
        THEN Return(FALSE, "Unauthorized", <<>>)
    ELSE IF ~\E i \in 1..Len(users) : users[i].refreshToken = ck.refreshToken
        THEN Return(FALSE, "Unauthorized", <<>>)
    ELSE outerCatch(outerTry(ck, inf), ck, inf, rs)

verifyAuth(ck, inf, rs) ==
    IF ~ck.accessToken.present \/ ~ck.refreshToken.present
        THEN Return(FALSE, "Unauthorized", <<>>)
    ELSE outerCatch(outerTry(ck, inf), ck, inf, rs)

NoAuth == [kind |-> "none", authorized |-> FALSE, cause |-> "", err |-> "",
           accessCookie |-> NoToken, message |-> "", cookiesSet |-> {}, verified |-> <<>>]

NoRes == [op |-> "none", status |-> 0]

----------------------------------------------------------------------------
(* SpecAuth: verifyAuth applied to every pair of cookies and requirement.  *)

EmptyStore ==
    /\ users = <<>>
    /\ groups = <<>>
    /\ transactions = {}
    /\ categories = <<>>

InitAuth ==
    /\ EmptyStore
    /\ cookie \in [accessToken : Tokens, refreshToken : Tokens]
    /\ info \in Requirements
    /\ auth = NoAuth
    /\ res = NoRes
    /\ pc = "idle"

VerifyAuthCall ==
    /\ pc = "idle"
    /\ auth' = verifyAuth(cookie, info, WorkingRes)
    /\ pc' = "done"
    /\ UNCHANGED <<users, groups, transactions, categories, cookie, info, res>>

NextAuth == VerifyAuthCall

SpecAuth == InitAuth /\ [][NextAuth]_vars

----------------------------------------------------------------------------
(* Properties of verifyAuth, checked under SpecAuth.                       *)

Served == pc = "done"

\* What a token says about a requirement.
ReqHolds(inf, t) ==
    CASE inf.authType = "Admin" -> t.role = "Admin"
      [] inf.authType = "User" -> t.username = inf.username
      [] inf.authType = "Group" -> t.email \in inf.emails
      [] OTHER -> TRUE

ReqCause(inf) ==
    CASE inf.authType = "Admin" -> "You need to be admin to perform this action"
      [] inf.authType = "User" -> "You cannot request info about another user"
      [] inf.authType = "Group" -> "You cannot request info about a group you don't belong to"
      [] OTHER -> "none"

BothPresent == cookie.accessToken.present /\ cookie.refreshToken.present
Valid(t) == t.present /\ t.sig /\ ~t.expired
Expired(t) == t.present /\ t.sig /\ t.expired
Tampered(t) == t.present /\ ~t.sig
Complete(t) == ~MissingInformation(t)

\* C1: verifyAuth is total: for every pair of tokens (absent, valid, tampered,
\* expired, valid with missing claims) and every requirement it returns a
\* decision {authorized, cause} and never throws.
C1_Total ==
    Served => /\ auth.kind = "return"
              /\ auth.authorized \in BOOLEAN
              /\ auth.cause # ""

\* C1 witness: a request in which both try blocks threw (both tokens expired)
\* has been served.
C1_Witness ==
    /\ Served
    /\ Expired(cookie.accessToken)
    /\ Expired(cookie.refreshToken)
    /\ auth.verified = <<"accessToken", "refreshToken">>

\* C2: with an expired access token and a valid, complete refresh token that
\* satisfies the requirement, the decision is {true, "Authorized"} and a new
\* accessToken cookie carries the refresh token's username, email, role, id.
C2_Renewal ==
    (/\ Served
     /\ Expired(cookie.accessToken)
     /\ Valid(cookie.refreshToken)
     /\ Complete(cookie.refreshToken)
     /\ ReqHolds(info, cookie.refreshToken))
    => /\ auth.kind = "return"
       /\ auth.authorized
       /\ auth.cause = "Authorized"
       /\ Valid(auth.accessCookie)
       /\ auth.accessCookie.username = cookie.refreshToken.username
       /\ auth.accessCookie.email = cookie.refreshToken.email
       /\ auth.accessCookie.role = cookie.refreshToken.role
       /\ auth.accessCookie.id = cookie.refreshToken.id

\* C2 witness: the Admin scenario, with an access token of another identity.
C2_Witness ==
    /\ Served
    /\ Expired(cookie.accessToken)
    /\ Valid(cookie.refreshToken)
    /\ cookie.refreshToken.role = "Admin"
    /\ cookie.accessToken.id # cookie.refreshToken.id
    /\ info = Admin
    /\ auth.authorized
    /\ auth.accessCookie.present

\* C3: a tampered access token, expired or not, is reported as invalid: the
\* decision is unauthorized, its cause is neither "Authorized" nor "Perform
\* login again", and no accessToken cookie is set, whatever the refresh token.
C3_TamperedNeverRenews ==
    (Served /\ Tampered(cookie.accessToken))
    => /\ auth.kind = "return"
       /\ ~auth.authorized
       /\ auth.cause \notin {"Authorized", "Perform login again"}
       /\ ~auth.accessCookie.present
       /\ auth.message = ""

\* C3 witness: a tampered and expired access token with a valid Admin refresh
\* token has been served.
C3_Witness ==
    /\ Served
    /\ Tampered(cookie.accessToken)
    /\ cookie.accessToken.expired
    /\ Valid(cookie.refreshToken)
    /\ Complete(cookie.refreshToken)
    /\ auth.cause = "JsonWebTokenError"

\* C4: two valid, complete tokens that differ in username, email or role give
\* {false, "Mismatched users"} for every requirement.
C4_Mismatch ==
    (/\ Served
     /\ Valid(cookie.accessToken) /\ Complete(cookie.accessToken)
     /\ Valid(cookie.refreshToken) /\ Complete(cookie.refreshToken)
     /\ \/ cookie.accessToken.username # cookie.refreshToken.username
        \/ cookie.accessToken.email # cookie.refreshToken.email
        \/ cookie.accessToken.role # cookie.refreshToken.role)
    => /\ auth.kind = "return"
       /\ ~auth.authorized
       /\ auth.cause = "Mismatched users"

\* C4 witness: the tokens differ in the role only and the access token alone
\* would satisfy the requirement.
C4_Witness ==
    /\ Served
    /\ Valid(cookie.accessToken) /\ Complete(cookie.accessToken)
    /\ Valid(cookie.refreshToken) /\ Complete(cookie.refreshToken)
    /\ cookie.accessToken.username = cookie.refreshToken.username
    /\ cookie.accessToken.email = cookie.refreshToken.email
    /\ cookie.accessToken.role = "Admin"
    /\ cookie.refreshToken.role = "Regular"
    /\ info = Admin
    /\ auth.cause = "Mismatched users"

\* C5 as stated: both tokens present and the refresh token expired give
\* {false, "Perform login again"} for every access token and requirement.
C5_Original ==
    (Served /\ BothPresent /\ Expired(cookie.refreshToken))
    => (~auth.authorized /\ auth.cause = "Perform login again")

\* C5 amended: both tokens present, the access token's signature valid
\* (unexpired or expired, complete or not) and the refresh token expired give
\* {false, "Perform login again"} for every requirement; with a tampered
\* access token the cause is the verification error's name instead.
C5_Amended ==
    (Served /\ BothPresent /\ Expired(cookie.refreshToken))
    => /\ auth.kind = "return"
       /\ ~auth.authorized
       /\ cookie.accessToken.sig => auth.cause = "Perform login again"
       /\ ~cookie.accessToken.sig => auth.cause = "JsonWebTokenError"

\* C5 witness: a valid access token with an expired refresh token.
C5_Witness ==
    /\ Served
    /\ Valid(cookie.accessToken)
    /\ Expired(cookie.refreshToken)
    /\ auth.cause = "Perform login again"

\* C6: if either cookie is absent the decision is {false, "Unauthorized"},
\* no token is verified, no cookie and no advisory message are set.
C6_Absent ==
    (Served /\ ~BothPresent)
    => /\ auth.kind = "return"
       /\ ~auth.authorized
       /\ auth.cause = "Unauthorized"
       /\ auth.verified = <<>>
       /\ ~auth.accessCookie.present
       /\ auth.message = ""

\* C6 witness: an expired access token alone, without a refresh cookie.
C6_Witness ==
    /\ Served
    /\ Expired(cookie.accessToken)
    /\ ~cookie.refreshToken.present
    /\ auth.cause = "Unauthorized"

\* The tokens validate: both valid, complete and equal in claims, or the access
\* token expired and the refresh token valid and complete.
TokensValidate ==
    \/ /\ Valid(cookie.accessToken) /\ Complete(cookie.accessToken)
       /\ Valid(cookie.refreshToken) /\ Complete(cookie.refreshToken)
       /\ cookie.accessToken.username = cookie.refreshToken.username
       /\ cookie.accessToken.email = cookie.refreshToken.email
       /\ cookie.accessToken.role = cookie.refreshToken.role
    \/ /\ Expired(cookie.accessToken)
       /\ Valid(cookie.refreshToken) /\ Complete(cookie.refreshToken)

\* C7: once the tokens validate, the decision is authorized exactly when the
\* requirement holds on the resolved claims (Simple always, User(u) iff the
\* username is u, Admin iff the role is Admin, Group(emails) iff the email is
\* in emails), and otherwise unauthorized with the requirement's own cause.
C7_Requirement ==
    (Served /\ TokensValidate)
    => /\ auth.kind = "return"
       /\ auth.authorized <=> ReqHolds(info, cookie.refreshToken)
       /\ auth.authorized => auth.cause = "Authorized"
       /\ ~auth.authorized => auth.cause = ReqCause(info)

\* C7 witness: a renewal refused because the email is not in the group.
C7_Witness ==
    /\ Served
    /\ Expired(cookie.accessToken)
    /\ Valid(cookie.refreshToken) /\ Complete(cookie.refreshToken)
    /\ info.authType = "Group"
    /\ info.emails # {}
    /\ cookie.refreshToken.email \notin info.emails
    /\ ~auth.authorized
    /\ auth.cause = ReqCause(info)

----------------------------------------------------------------------------
(* The document store and the helpers of controllers/group.utils.js.       *)
(* A collection is the sequence of its documents in insertion order.       *)

\* number of group names (g1..)
MaxGroups == 2
\* longest list of emails in a request body
MaxEmailList == 2
\* number of transactions the store may hold
MaxTransactions == 1

GroupPool == <<"g1", "g2", "g3", "g4">>
IdPool == <<"id1", "id2", "id3", "id4">>
GroupNames == {GroupPool[i] : i \in 1..MaxGroups}
Types == {"t1", "t2"}

Range(s) == {s[i] : i \in 1..Len(s)}

\* User documents: the id is fixed by the email the user registered with.
IdOf(email) == IdPool[CHOOSE i \in 1..Len(MailPool) : MailPool[i] = email]

\* bcrypt.hash(password, 12) and bcrypt.compare(password, hash).
Passwords == {"pw1", "pw2"}

bcryptHash(password) == [bcrypt |-> password]

bcryptCompare(password, hash) == hash = bcryptHash(password)

\* The password the principal with this email registers and logs in with.
OwnPassword(email) == IF email = MailPool[1] THEN "pw1" ELSE "pw2"

UserDoc(username, email, role, password) ==
    [username |-> username, email |-> email, role |-> role,
     password |-> bcryptHash(password),
     refreshToken |-> NoToken, id |-> IdOf(email)]

\* Model.findOne(filter): the first document among the matching ones, or null.
Null == [null |-> TRUE]

FindOne(coll, matching) ==
    IF \E i \in 1..Len(coll) : coll[i] \in matching
        THEN coll[CHOOSE i \in 1..Len(coll) :
                    coll[i] \in matching /\ \A j \in 1..(i - 1) : coll[j] \notin matching]
        ELSE Null

\* arrayDifference(a, b) and arrayIntersection(a, b) of array.utils.js:
\* the elements of a that are not (are) in b, in the order of a.
arrayDifference(a, b) == SelectSeq(a, LAMBDA x : x \notin Range(b))

arrayIntersection(a, b) == SelectSeq(a, LAMBDA x : x \in Range(b))

\* $unwind of the members of every group, projected on the email.
RECURSIVE AllMemberEmails(_)
AllMemberEmails(gs) ==
    IF gs = <<>> THEN <<>>
    ELSE [i \in 1..Len(Head(gs).members) |-> Head(gs).members[i].email]
         \o AllMemberEmails(Tail(gs))

MemberEmails(g) == [i \in 1..Len(g.members) |-> g.members[i].email]

\* Variant: the membership lookup finds nobody in a group.
findUsersGroupBlind(gs, emails) == <<emails, <<>>>>

\* findUsersGroup(emails): [usersNotInGroups, usersInGroups].
findUsersGroup(gs, emails) ==
    LET usersInGroups == SelectSeq(AllMemberEmails(gs), LAMBDA e : e \in Range(emails))
        usersNotInGroups ==
            IF Len(usersInGroups) # 0 THEN arrayDifference(emails, usersInGroups)
            ELSE emails
    IN  <<usersNotInGroups, usersInGroups>>

\* getUserReference(emails): the {email, user} pairs of the users found.
getUserReference(us, emails) ==
    LET found == SelectSeq(us, LAMBDA u : u.email \in Range(emails))
    IN  [i \in 1..Len(found) |-> [email |-> found[i].email, user |-> found[i].id]]

\* Variant: the arguments of arrayDifference are swapped.
findExistingUsersSwapped(us, emails) ==
    LET found == SelectSeq(us, LAMBDA u : u.email \in Range(emails))
        existingMembers == [i \in 1..Len(found) |-> found[i].email]
        membersNotFound ==
            IF Len(existingMembers) # Len(emails)
                THEN arrayDifference(existingMembers, emails)
            ELSE <<>>
    IN  <<existingMembers, membersNotFound>>

\* findExistingUsers(emails): [existingMembers, membersNotFound].
findExistingUsers(us, emails) ==
    LET found == SelectSeq(us, LAMBDA u : u.email \in Range(emails))
        existingMembers == [i \in 1..Len(found) |-> found[i].email]
        membersNotFound ==
            IF Len(existingMembers) # Len(emails)
                THEN arrayDifference(emails, existingMembers)
            ELSE <<>>
    IN  <<existingMembers, membersNotFound>>

\* Variant: the caller is the user the token was issued to.
getUserFromTokenByEmail(us, refreshToken) ==
    FindOne(us, {u \in Range(us) : u.email = refreshToken.email})

\* getUserFromToken(refreshToken): User.findOne({refreshToken}).  An absent
\* cookie is the filter {refreshToken: undefined}, which the driver sends as
\* null: it matches the users that hold no refresh token.
getUserFromToken(us, refreshToken) ==
    FindOne(us, {u \in Range(us) : u.refreshToken = refreshToken})

\* The names bound in the module scope of controllers/users.js: its imports
\* (lines 1-15) and its exports.  group.utils.js is imported under the
\* names addEmail and getUserReferen, so getUserReference is not among them
\* and a call of it throws a ReferenceError.
UsersJsScope ==
    {"Group", "User", "transactions", "arrayIntersection", "addEmail",
     "findExistingUsers", "findUsersGroup", "getUserFromToken", "getUserReferen",
     "groupSchemaMapper", "userSchemaMapper", "verifyAuth", "yup", "validateRequest",
     "getUsers", "getUser", "createGroup", "getGroups", "getGroup", "addToGroup",
     "removeFromGroup", "deleteUser", "deleteGroup"}

----------------------------------------------------------------------------
(* The handlers.  A handler maps the store and a request to the store after *)
(* the request and the response; `status` is the HTTP status.               *)

Outcome(us, gs, ts, op, status, error, data) ==
    [users |-> us, groups |-> gs, transactions |-> ts,
     res |-> [op |-> op, status |-> status, error |-> error, data |-> data]]

NoData == [none |-> TRUE]

\* $pull of the members whose email is in `emails` from the group `name`
\* (findOneAndUpdate: the first group of that name).
PullMembers(gs, name, emails) ==
    LET k == CHOOSE i \in 1..Len(gs) :
                gs[i].name = name /\ \A j \in 1..(i - 1) : gs[j].name # name
    IN  [gs EXCEPT ![k].members = SelectSeq(@, LAMBDA m : m.email \notin emails)]

\* $push of `members` to the group `name`.
PushMembers(gs, name, members) ==
    LET k == CHOOSE i \in 1..Len(gs) :
                gs[i].name = name /\ \A j \in 1..(i - 1) : gs[j].name # name
    IN  [gs EXCEPT ![k].members = @ \o members]

\* findOneAndDelete({name}): the collection without the first such group.
DeleteFirst(coll, matching) ==
    IF \E i \in 1..Len(coll) : coll[i] \in matching
        THEN LET k == CHOOSE i \in 1..Len(coll) :
                        coll[i] \in matching /\ \A j \in 1..(i - 1) : coll[j] \notin matching
             IN  SubSeq(coll, 1, k - 1) \o SubSeq(coll, k + 1, Len(coll))
        ELSE coll

\* Variant: createGroup without the test for an existing group of that name.
createGroupNoNameCheck(us, gs, ts, ck, name, memberEmails0) ==
    LET currUser == getUserFromToken(us, ck.refreshToken) IN
    IF currUser = Null
        THEN Outcome(us, gs, ts, "createGroup", 500, "TypeError", NoData)
    ELSE
    LET memberEmails ==
            IF currUser.email \notin Range(memberEmails0)
                THEN Append(memberEmails0, currUser.email) ELSE memberEmails0
        fe == findExistingUsers(us, memberEmails)
        membersFound == fe[1]
        membersNotFound == fe[2]
        fg == findUsersGroup(gs, membersFound)
        membersNotInGroup == fg[1]
        membersInGroup == fg[2]
    IN  IF Len(membersFound) = Len(membersInGroup)
            THEN Outcome(us, gs, ts, "createGroup", 400,
                         "User don't exit or already in a group", NoData)
        ELSE IF "getUserReference" \notin UsersJsScope
            THEN Outcome(us, gs, ts, "createGroup", 500, "ReferenceError", NoData)
        ELSE LET members == getUserReference(us, membersNotInGroup)
                 savedGroup == [name |-> name, members |-> members]
             IN  Outcome(us, Append(gs, savedGroup), ts, "createGroup", 200, "",
                         [group |-> [name |-> name, members |-> MemberEmails(savedGroup)],
                          alreadyInGroup |-> membersInGroup,
                          membersNotFound |-> membersNotFound])

\* createGroup (users.js 93-160).  No verifyAuth call (line 96: TODO).
createGroup(us, gs, ts, ck, name, memberEmails0) ==
    LET currUser == getUserFromToken(us, ck.refreshToken) IN
    IF currUser = Null
        \* line 118: currUser.email of null, caught at line 156
        THEN Outcome(us, gs, ts, "createGroup", 500, "TypeError", NoData)
    ELSE
    LET memberEmails ==
            IF currUser.email \notin Range(memberEmails0)
                THEN Append(memberEmails0, currUser.email) ELSE memberEmails0
        group == FindOne(gs, {g \in Range(gs) : g.name = name})
        fe == findExistingUsers(us, memberEmails)
        membersFound == fe[1]
        membersNotFound == fe[2]
        fg == findUsersGroup(gs, membersFound)
        membersNotInGroup == fg[1]
        membersInGroup == fg[2]
    IN  IF group # Null
            THEN Outcome(us, gs, ts, "createGroup", 400, "Group already exists", NoData)
        ELSE IF Len(membersFound) = Len(membersInGroup)
            THEN Outcome(us, gs, ts, "createGroup", 400,
                         "User don't exit or already in a group", NoData)
        ELSE IF "getUserReference" \notin UsersJsScope
            \* line 145, caught at line 156
            THEN Outcome(us, gs, ts, "createGroup", 500, "ReferenceError", NoData)
        ELSE LET members == getUserReference(us, membersNotInGroup)
                 savedGroup == [name |-> name, members |-> members]
             IN  Outcome(us, Append(gs, savedGroup), ts, "createGroup", 200, "",
                         [group |-> [name |-> name, members |-> MemberEmails(savedGroup)],
                          alreadyInGroup |-> membersInGroup,
                          membersNotFound |-> membersNotFound])

\* addToGroup (users.js 257-326).  No verifyAuth call (line 259: TODO).
addToGroup(us, gs, ts, ck, name, emails) ==
    LET group == FindOne(gs, {g \in Range(gs) : g.name = name})
        fe == findExistingUsers(us, emails)
        membersFound == fe[1]
        membersNotFound == fe[2]
        fg == findUsersGroup(gs, membersFound)
        membersNotInGroup == fg[1]
        membersInGroup == fg[2]
    IN  IF Len(emails) = 0
            THEN Outcome(us, gs, ts, "addToGroup", 400, "List is empty", NoData)
        ELSE IF group = Null
            THEN Outcome(us, gs, ts, "addToGroup", 400, "Group does not exist", NoData)
        ELSE IF Len(membersFound) = Len(membersInGroup)
            THEN Outcome(us, gs, ts, "addToGroup", 400,
                         "Users don't exist or already in a group", NoData)
        ELSE IF "getUserReference" \notin UsersJsScope
            \* line 307, caught at line 322
            THEN Outcome(us, gs, ts, "addToGroup", 500, "ReferenceError", NoData)
        ELSE LET members == getUserReference(us, membersNotInGroup)
                 gs2 == PushMembers(gs, name, members)
                 updatedGroup == FindOne(gs2, {g \in Range(gs2) : g.name = name})
             IN  Outcome(us, gs2, ts, "addToGroup", 200, "",
                         [group |-> [name |-> name, members |-> MemberEmails(updatedGroup)],
                          alreadyInGroup |-> membersInGroup,
                          membersNotFound |-> membersNotFound])

\* Variant: the emptied group is kept.
removeFromGroupKeepsEmpty(us, gs, ts, ck, name, emails) ==
    LET group == FindOne(gs, {g \in Range(gs) : g.name = name})
        fe == findExistingUsers(us, emails)
        membersFound == fe[1]
        membersNotFound == fe[2]
        fg == findUsersGroup(gs, membersFound)
        membersNotInGroup == fg[1]
        membersInGroup == fg[2]
    IN  IF Len(emails) = 0
            THEN Outcome(us, gs, ts, "removeFromGroup", 400, "List is empty", NoData)
        ELSE IF group = Null
            THEN Outcome(us, gs, ts, "removeFromGroup", 400, "Group does not exist", NoData)
        ELSE IF Len(membersFound) = Len(membersNotInGroup)
            THEN Outcome(us, gs, ts, "removeFromGroup", 400,
                         "Users don't exist or not in a group", NoData)
        ELSE LET membersToRemove == arrayIntersection(membersInGroup, MemberEmails(group))
                 gs2 == PullMembers(gs, name, Range(membersToRemove))
                 updatedGroup == FindOne(gs2, {g \in Range(gs2) : g.name = name})
             IN  Outcome(us, gs2, ts, "removeFromGroup", 200, "",
                         [group |-> [name |-> name, members |-> MemberEmails(updatedGroup)],
                          notInGroup |-> membersNotInGroup,
                          membersNotFound |-> membersNotFound])

\* removeFromGroup (users.js 338-418).  No verifyAuth call (line 340: TODO).
removeFromGroup(us, gs, ts, ck, name, emails) ==
    LET group == FindOne(gs, {g \in Range(gs) : g.name = name})
        fe == findExistingUsers(us, emails)
        membersFound == fe[1]
        membersNotFound == fe[2]
        fg == findUsersGroup(gs, membersFound)
        membersNotInGroup == fg[1]
        membersInGroup == fg[2]
    IN  IF Len(emails) = 0
            THEN Outcome(us, gs, ts, "removeFromGroup", 400, "List is empty", NoData)
        ELSE IF group = Null
            THEN Outcome(us, gs, ts, "removeFromGroup", 400, "Group does not exist", NoData)
        ELSE IF Len(membersFound) = Len(membersNotInGroup)
            THEN Outcome(us, gs, ts, "removeFromGroup", 400,
                         "Users don't exist or not in a group", NoData)
        ELSE LET membersToRemove == arrayIntersection(membersInGroup, MemberEmails(group))
                 gs2 == PullMembers(gs, name, Range(membersToRemove))
                 updatedGroup == FindOne(gs2, {g \in Range(gs2) : g.name = name})
                 gs3 == IF Len(updatedGroup.members) = 0
                            THEN DeleteFirst(gs2, {g \in Range(gs2) : g.name = name})
                        ELSE gs2
             IN  Outcome(us, gs3, ts, "removeFromGroup", 200, "",
                         [group |-> [name |-> name, members |-> MemberEmails(updatedGroup)],
                          notInGroup |-> membersNotInGroup,
                          membersNotFound |-> membersNotFound])

\* Variant: the transactions of the deleted user are kept.
deleteUserKeepsTransactions(us, gs, ts, ck, email) ==
    LET user == FindOne(us, {u \in Range(us) : u.email = email})
        us2 == DeleteFirst(us, {u \in Range(us) : u.email = email})
        toRemoveFromGroup ==
            SelectSeq(gs, LAMBDA g : \E i \in 1..Len(g.members) : g.members[i].email = email)
    IN  IF user = Null
            THEN Outcome(us, gs, ts, "deleteUser", 400, "User doesn't exist", NoData)
        ELSE
        LET gs3 ==
                IF Len(toRemoveFromGroup) # 0
                    THEN LET gname == toRemoveFromGroup[1].name
                             gs2 == PullMembers(gs, gname, {email})
                             updatedGroup == FindOne(gs2, {g \in Range(gs2) : g.name = gname})
                         IN  IF Len(updatedGroup.members) = 0
                                 THEN DeleteFirst(gs2, {g \in Range(gs2) : g.name = gname})
                             ELSE gs2
                ELSE gs
        IN  Outcome(us2, gs3, ts, "deleteUser", 200, "",
                    [deletedTransactions |-> 0,
                     deletedFromGroup |-> Len(toRemoveFromGroup) # 0])

\* Variant: the user is deleted and left in its group.
deleteUserKeepsMembership(us, gs, ts, ck, email) ==
    LET user == FindOne(us, {u \in Range(us) : u.email = email})
        us2 == DeleteFirst(us, {u \in Range(us) : u.email = email})
        toRemoveFromGroup ==
            SelectSeq(gs, LAMBDA g : \E i \in 1..Len(g.members) : g.members[i].email = email)
    IN  IF user = Null
            THEN Outcome(us, gs, ts, "deleteUser", 400, "User doesn't exist", NoData)
        ELSE
        LET ts2 == {t \in ts : t.username # user.username}
        IN  Outcome(us2, gs, ts2, "deleteUser", 200, "",
                    [deletedTransactions |-> Cardinality(ts) - Cardinality(ts2),
                     deletedFromGroup |-> Len(toRemoveFromGroup) # 0])

\* deleteUser (users.js 429-496).  No verifyAuth call (line 431: TODO).
deleteUser(us, gs, ts, ck, email) ==
    LET user == FindOne(us, {u \in Range(us) : u.email = email})
        us2 == DeleteFirst(us, {u \in Range(us) : u.email = email})
        toRemoveFromGroup ==
            SelectSeq(gs, LAMBDA g : \E i \in 1..Len(g.members) : g.members[i].email = email)
    IN  IF user = Null
            THEN Outcome(us, gs, ts, "deleteUser", 400, "User doesn't exist", NoData)
        ELSE
        LET gs3 ==
                IF Len(toRemoveFromGroup) # 0
                    THEN LET gname == toRemoveFromGroup[1].name
                             gs2 == PullMembers(gs, gname, {email})
                             updatedGroup == FindOne(gs2, {g \in Range(gs2) : g.name = gname})
                         IN  IF Len(updatedGroup.members) = 0
                                 THEN DeleteFirst(gs2, {g \in Range(gs2) : g.name = gname})
                             ELSE gs2
                ELSE gs
            ts2 == {t \in ts : t.username # user.username}
        IN  Outcome(us2, gs3, ts2, "deleteUser", 200, "",
                    [deletedTransactions |-> Cardinality(ts) - Cardinality(ts2),
                     deletedFromGroup |-> Len(toRemoveFromGroup) # 0])

\* deleteGroup (users.js 505-538).  No verifyAuth call (line 507: TODO).
deleteGroup(us, gs, ts, ck, name) ==
    LET group == FindOne(gs, {g \in Range(gs) : g.name = name})
    IN  IF group = Null
            THEN Outcome(us, gs, ts, "deleteGroup", 400, "Group does not exists", NoData)
        ELSE Outcome(us, DeleteFirst(gs, {g \in Range(gs) : g.name = name}), ts, "deleteGroup", 200, "",
                     [message |-> "Group delete successfully"])

----------------------------------------------------------------------------
(* controllers/auth.js.                                                     *)

\* Variant: only the email is looked up.
registerWithRoleEmailOnly(us, gs, ts, op, username, email, role, password) ==
    LET existingUser == FindOne(us, {u \in Range(us) : u.email = email})
    IN  IF existingUser # Null
            THEN Outcome(us, gs, ts, op, 400, "you are already registered", NoData)
        ELSE Outcome(Append(us, UserDoc(username, email, role, password)), gs, ts, op, 200, "",
                     [message |-> "user added succesfully"])

\* register / registerAdmin (auth.js 35-57, 66-90) on a well-formed body.
registerWithRole(us, gs, ts, op, username, email, role, password) ==
    LET existingUser == FindOne(us, {u \in Range(us) : u.email = email \/ u.username = username})
    IN  IF existingUser # Null
            THEN Outcome(us, gs, ts, op, 400, "you are already registered", NoData)
        ELSE Outcome(Append(us, UserDoc(username, email, role, password)), gs, ts, op, 200, "",
                     [message |-> "user added succesfully"])

register(us, gs, ts, username, email, password) ==
    registerWithRole(us, gs, ts, "register", username, email, "Regular", password)

registerAdmin(us, gs, ts, username, email, password) ==
    registerWithRole(us, gs, ts, "registerAdmin", username, email, "Admin", password)

\* Variant: the document is never saved.
SaveRefreshTokenLost(us, email, token) == us

\* existingUser.save(): the stored document of that user is replaced.
SaveRefreshToken(us, email, token) ==
    [i \in 1..Len(us) |-> IF us[i].email = email
                              THEN [us[i] EXCEPT !.refreshToken = token] ELSE us[i]]

\* The cookies a response sets with res.cookie(name, value, options): a
\* record of the names set, empty when none is.
NoSetCookie == [x \in {} |-> NoToken]

SetCookie(o, cookies) == [o EXCEPT !.res = @ @@ [cookies |-> cookies]]

\* Variant: the password is not compared.
loginAnyPassword(us, gs, ts, email, password, now) ==
    LET existingUser == FindOne(us, {u \in Range(us) : u.email = email})
    IN  IF existingUser = Null
            THEN SetCookie(Outcome(us, gs, ts, "login", 400, "please you need to register",
                                   NoData), NoSetCookie)
        ELSE LET accessToken == jwtSignAt(existingUser.username, existingUser.email,
                                          existingUser.id, existingUser.role, now)
                 refreshToken == jwtSignAt(existingUser.username, existingUser.email,
                                           existingUser.id, existingUser.role, now)
             IN  SetCookie(Outcome(SaveRefreshToken(us, email, refreshToken), gs, ts,
                                   "login", 200, "",
                                   [accessToken |-> accessToken, refreshToken |-> refreshToken]),
                           [accessToken |-> accessToken, refreshToken |-> refreshToken])

\* login (auth.js 100-140) on a well-formed body, at the time `now`.
login(us, gs, ts, email, password, now) ==
    LET existingUser == FindOne(us, {u \in Range(us) : u.email = email})
    IN  IF existingUser = Null
            THEN SetCookie(Outcome(us, gs, ts, "login", 400, "please you need to register",
                                   NoData), NoSetCookie)
        ELSE IF ~bcryptCompare(password, existingUser.password)
            THEN SetCookie(Outcome(us, gs, ts, "login", 400, "wrong credentials", NoData),
                           NoSetCookie)
        ELSE LET accessToken == jwtSignAt(existingUser.username, existingUser.email,
                                          existingUser.id, existingUser.role, now)
                 refreshToken == jwtSignAt(existingUser.username, existingUser.email,
                                           existingUser.id, existingUser.role, now)
             IN  SetCookie(Outcome(SaveRefreshToken(us, email, refreshToken), gs, ts,
                                   "login", 200, "",
                                   [accessToken |-> accessToken, refreshToken |-> refreshToken]),
                           [accessToken |-> accessToken, refreshToken |-> refreshToken])

\* Variant: the user is looked up by the email in the token.
logoutByEmail(us, gs, ts, ck) ==
    LET refreshToken == ck.refreshToken
        user == FindOne(us, {u \in Range(us) :
                                u.refreshToken.present /\ u.email = refreshToken.email})
    IN  IF ~refreshToken.present
            THEN SetCookie(Outcome(us, gs, ts, "logout", 400, "user not found", NoData),
                           NoSetCookie)
        ELSE IF user = Null
            THEN SetCookie(Outcome(us, gs, ts, "logout", 400, "user not found", NoData),
                           NoSetCookie)
        ELSE SetCookie(Outcome(SaveRefreshToken(us, user.email, NoToken), gs, ts,
                               "logout", 200, "", [message |-> "logged out"]),
                       [accessToken |-> NoToken, refreshToken |-> NoToken])

\* logout (auth.js 150-164).
logout(us, gs, ts, ck) ==
    LET refreshToken == ck.refreshToken
        user == FindOne(us, {u \in Range(us) : u.refreshToken = refreshToken})
    IN  IF ~refreshToken.present
            THEN SetCookie(Outcome(us, gs, ts, "logout", 400, "user not found", NoData),
                           NoSetCookie)
        ELSE IF user = Null
            THEN SetCookie(Outcome(us, gs, ts, "logout", 400, "user not found", NoData),
                           NoSetCookie)
        ELSE SetCookie(Outcome(SaveRefreshToken(us, user.email, NoToken), gs, ts,
                               "logout", 200, "", [message |-> "logged out"]),
                       [accessToken |-> NoToken, refreshToken |-> NoToken])

----------------------------------------------------------------------------
(* controllers/controller.js: transactions.                                 *)

FreshId(ts) == CHOOSE i \in 1..(Cardinality(ts) + 1) : \A t \in ts : t.id # i

\* createTransaction (controller.js 199-213): only the presence of the
\* accessToken cookie is tested.
createTransaction(us, gs, ts, ck, username, type) ==
    IF ~ck.accessToken.present
        THEN Outcome(us, gs, ts, "createTransaction", 401, "Unauthorized", NoData)
    ELSE LET data == [id |-> FreshId(ts), username |-> username, type |-> type]
         IN  Outcome(us, gs, ts \cup {data}, "createTransaction", 200, "", data)

\* deleteTransaction (controller.js 323-334).
deleteTransaction(us, gs, ts, ck, id) ==
    IF ~ck.accessToken.present
        THEN Outcome(us, gs, ts, "deleteTransaction", 401, "Unauthorized", NoData)
    ELSE Outcome(us, gs, {t \in ts : t.id # id}, "deleteTransaction", 200, "",
                 [message |-> "deleted"])

----------------------------------------------------------------------------
(* controllers/controller.js: categories.  Every handler starts with       *)
(*     const adminAuth = verifyAuth(req, res, {authType: ...});            *)
(*     if (!adminAuth.flag) return res.status(401).json({error: cause})    *)

Colors == {"c1", "c2"}

\* The object verifyAuth returns.
Decision(c) == [authorized |-> c.authorized, cause |-> c.cause]

\* obj[name] of a JS object: undefined when the object has no such property.
Undefined == [undefined |-> TRUE]

Property(obj, name) == IF name \in DOMAIN obj THEN obj[name] ELSE Undefined

\* !v for a boolean or undefined v.
Not(v) == v = Undefined \/ v = FALSE

\* Variant: the handlers read the property the decision has.
AuthFlagAuthorized(decision) == Property(decision, "authorized")

\* adminAuth.flag / simpleAuth.flag.
AuthFlag(decision) == Property(decision, "flag")

CatOutcome(cats, ts, op, status, error, data) ==
    [categories |-> cats, transactions |-> ts,
     res |-> [op |-> op, status |-> status, error |-> error, data |-> data]]

\* A JS string value; a property holds one or is undefined.
Str(s) == [string |-> s]

\* res.locals after verifyAuth completed with c: line 122 of utils.js sets
\* res.locals.message when the access token is renewed.
resLocals(c) == IF c.message # "" THEN [message |-> Str(c.message)] ELSE [x \in {} |-> ""]

\* Variant: the handlers read the property verifyAuth writes.
SurfacedFromMessage(c) == Property(resLocals(c), "message")

\* What a handler puts in its 200 body as refreshedTokenMessage
\* (controller.js 34, 92, 162, 186): res.locals.refreshedTokenMessage.
Surfaced(c) == Property(resLocals(c), "refreshedTokenMessage")

\* res.status(200).json({data, refreshedTokenMessage}).
CatSuccess(cats, ts, op, data, c) ==
    [categories |-> cats, transactions |-> ts,
     res |-> [op |-> op, status |-> 200, error |-> "", data |-> data,
              refreshedTokenMessage |-> Surfaced(c)]]

FirstIndex(coll, matching) ==
    CHOOSE i \in 1..Len(coll) :
        coll[i] \in matching /\ \A j \in 1..(i - 1) : coll[j] \notin matching

\* createCategory (controller.js 11-38) on a well-formed body.
createCategory(cats, ts, adminAuth, type, color) ==
    IF Not(AuthFlag(Decision(adminAuth)))
        THEN CatOutcome(cats, ts, "createCategory", 401, adminAuth.cause, NoData)
    ELSE IF FindOne(cats, {c \in Range(cats) : c.type = type}) # Null
        THEN CatOutcome(cats, ts, "createCategory", 400,
                        "Category with same type already exists", NoData)
    ELSE CatSuccess(Append(cats, [type |-> type, color |-> color]), ts,
                    "createCategory", [type |-> type, color |-> color], adminAuth)

\* updateCategory (controller.js 48-96) on a well-formed body.
updateCategory(cats, ts, adminAuth, oldType, type, color) ==
    IF Not(AuthFlag(Decision(adminAuth)))
        THEN CatOutcome(cats, ts, "updateCategory", 401, adminAuth.cause, NoData)
    ELSE IF FindOne(cats, {c \in Range(cats) : c.type = oldType}) = Null
        THEN CatOutcome(cats, ts, "updateCategory", 400, "The category does not exist", NoData)
    ELSE IF FindOne(cats, {c \in Range(cats) : c.type = type}) # Null /\ type # oldType
        THEN CatOutcome(cats, ts, "updateCategory", 400, "Category type already exists", NoData)
    ELSE LET k == FirstIndex(cats, {c \in Range(cats) : c.type = oldType})
             changed == {t \in ts : t.type = oldType /\ type # oldType}
         IN  CatSuccess([cats EXCEPT ![k] = [type |-> type, color |-> color]],
                        {IF t.type = oldType THEN [t EXCEPT !.type = type] ELSE t : t \in ts},
                        "updateCategory",
                        [message |-> "Category edited successfully",
                         count |-> Cardinality(changed)], adminAuth)

\* deleteCategory (controller.js 109-166) on a non-empty list of types.
deleteCategory(cats, ts, adminAuth, types) ==
    IF Not(AuthFlag(Decision(adminAuth)))
        THEN CatOutcome(cats, ts, "deleteCategory", 401, adminAuth.cause, NoData)
    ELSE
    LET nCategories == Len(cats)
        foundCategories == SelectSeq(cats, LAMBDA c : c.type \in Range(types))
    IN  IF nCategories <= 1
            THEN CatOutcome(cats, ts, "deleteCategory", 400,
                            "Not enough categories to perform a deletion", NoData)
        ELSE IF Len(foundCategories) < Len(types)
            THEN CatOutcome(cats, ts, "deleteCategory", 400, "All categories must exist", NoData)
        ELSE
        LET all == Len(foundCategories) = nCategories
            typesToDelete ==
                IF all THEN {foundCategories[i].type : i \in 2..Len(foundCategories)}
                ELSE Range(types)
            cats2 == SelectSeq(cats, LAMBDA c : c.type \notin typesToDelete)
            oldestType == IF all THEN foundCategories[1].type ELSE cats2[1].type
            changed == {t \in ts : t.type \in typesToDelete}
        IN  CatSuccess(cats2,
                       {IF t.type \in typesToDelete THEN [t EXCEPT !.type = oldestType] ELSE t :
                            t \in ts},
                       "deleteCategory",
                       [message |-> "Categories deleted", count |-> Cardinality(changed)],
                       adminAuth)

\* getCategories (controller.js 175-190).
getCategories(cats, ts, simpleAuth) ==
    IF Not(AuthFlag(Decision(simpleAuth)))
        THEN CatOutcome(cats, ts, "getCategories", 401, simpleAuth.cause, NoData)
    ELSE CatSuccess(cats, ts, "getCategories", [categories |-> cats], simpleAuth)

----------------------------------------------------------------------------
(* Spec: every handler, one request at a time, from an empty database.     *)
(* A request is received (its cookies are fixed), served by one handler,   *)
(* and its response sent.                                                  *)

EmailLists == UNION {[1..n -> Emails] : n \in 0..MaxEmailList}
TypeLists == UNION {[1..n -> Types] : n \in 1..2}

\* The token the system issues for a user, and what a client may present of
\* it: nothing, the token while it is fresh, the token after its expiry.
TokenOf(u) == jwtSign(u.username, u.email, u.id, u.role)

Aged(t) == [t EXCEPT !.expired = TRUE]

NoCookies == [accessToken |-> NoToken, refreshToken |-> NoToken]

ClientJars(us) ==
    {NoCookies} \cup
    {[accessToken |-> a, refreshToken |-> r] :
        <<a, r>> \in UNION {{NoToken, TokenOf(us[i]), Aged(TokenOf(us[i]))}
                            \X {NoToken, TokenOf(us[i]), Aged(TokenOf(us[i]))} :
                            i \in 1..Len(us)}}

Init ==
    /\ EmptyStore
    /\ cookie = NoCookies
    /\ info = NoInfo
    /\ auth = NoAuth
    /\ res = NoRes
    /\ pc = "idle"

\* A request arrives with the cookies of some client.
Receive ==
    /\ pc = "idle"
    /\ cookie' \in ClientJars(users)
    /\ pc' = "arrived"
    /\ UNCHANGED <<users, groups, transactions, categories, info, auth, res>>

\* The response has been sent.
Respond ==
    /\ pc = "done"
    /\ cookie' = NoCookies
    /\ info' = NoInfo
    /\ auth' = NoAuth
    /\ res' = NoRes
    /\ pc' = "idle"
    /\ UNCHANGED <<users, groups, transactions, categories>>

\* The request has been served with outcome `o` by a handler of users.js,
\* auth.js or a transaction handler, none of which calls verifyAuth.
Serve(o) ==
    /\ pc = "arrived"
    /\ users' = o.users
    /\ groups' = o.groups
    /\ transactions' = o.transactions
    /\ res' = o.res
    /\ pc' = "done"
    /\ UNCHANGED <<categories, cookie, info, auth>>

\* The request has been served by a category handler, which called
\* verifyAuth with requirement `inf`.
ServeCategory(inf, o) ==
    /\ pc = "arrived"
    /\ info' = inf
    /\ auth' = verifyAuth(cookie, inf, WorkingRes)
    /\ categories' = o.categories
    /\ transactions' = o.transactions
    /\ res' = o.res
    /\ pc' = "done"
    /\ UNCHANGED <<users, groups, cookie>>

Register ==
    \E u \in Usernames, e \in Emails :
        Serve(register(users, groups, transactions, u, e, OwnPassword(e)))

RegisterAdmin ==
    \E u \in Usernames, e \in Emails :
        Serve(registerAdmin(users, groups, transactions, u, e, OwnPassword(e)))

Login ==
    \E e \in Emails : Serve(login(users, groups, transactions, e, OwnPassword(e), 0))

Logout == Serve(logout(users, groups, transactions, cookie))

CreateGroup ==
    \E n \in GroupNames, es \in EmailLists :
        Serve(createGroup(users, groups, transactions, cookie, n, es))

AddToGroup ==
    \E n \in GroupNames, es \in EmailLists :
        Serve(addToGroup(users, groups, transactions, cookie, n, es))

RemoveFromGroup ==
    \E n \in GroupNames, es \in EmailLists :
        Serve(removeFromGroup(users, groups, transactions, cookie, n, es))

DeleteUser ==
    \E e \in Emails : Serve(deleteUser(users, groups, transactions, cookie, e))

DeleteGroup ==
    \E n \in GroupNames : Serve(deleteGroup(users, groups, transactions, cookie, n))

CreateTransaction ==
    /\ Cardinality(transactions) < MaxTransactions
    /\ \E u \in Usernames, t \in Types :
        Serve(createTransaction(users, groups, transactions, cookie, u, t))

DeleteTransaction ==
    \E i \in 1..MaxTransactions :
        Serve(deleteTransaction(users, groups, transactions, cookie, i))

CreateCategory ==
    \E t \in Types, c \in Colors :
        ServeCategory(Admin, createCategory(categories, transactions,
                                            verifyAuth(cookie, Admin, WorkingRes), t, c))

UpdateCategory ==
    \E old \in Types, t \in Types, c \in Colors :
        ServeCategory(Admin, updateCategory(categories, transactions,
                                            verifyAuth(cookie, Admin, WorkingRes), old, t, c))

DeleteCategory ==
    \E types \in TypeLists :
        ServeCategory(Admin, deleteCategory(categories, transactions,
                                            verifyAuth(cookie, Admin, WorkingRes), types))

GetCategories ==
    ServeCategory(Simple, getCategories(categories, transactions, verifyAuth(cookie, Simple, WorkingRes)))

Next ==
    \/ Receive
    \/ Respond
    \/ Register
    \/ RegisterAdmin
    \/ Login
    \/ Logout
    \/ CreateGroup
    \/ AddToGroup
    \/ RemoveFromGroup
    \/ DeleteUser
    \/ DeleteGroup
    \/ CreateTransaction
    \/ DeleteTransaction
    \/ CreateCategory
    \/ UpdateCategory
    \/ DeleteCategory
    \/ GetCategories

Spec == Init /\ [][Next]_vars

----------------------------------------------------------------------------
(* Properties of the handlers, checked under Spec.                         *)

ProtectedOps ==
    {"createGroup", "addToGroup", "removeFromGroup", "deleteUser", "deleteGroup",
     "createTransaction", "deleteTransaction"}

CategoryOps == {"createCategory", "updateCategory", "deleteCategory", "getCategories"}

\* The cookies make verifyAuth answer unauthorized for every requirement.
Unauthorized(ck) == ~verifyAuth(ck, Simple, WorkingRes).authorized

\* C8: a protected handler decides the authorization before anything else: a
\* request to createGroup, addToGroup, removeFromGroup, deleteUser,
\* deleteGroup, createTransaction or deleteTransaction whose cookies make
\* verifyAuth answer unauthorized writes nothing to the store.
C8_NoWriteWhenUnauthorized ==
    [][(/\ pc = "arrived"
        /\ pc' = "done"
        /\ res'.op \in ProtectedOps
        /\ Unauthorized(cookie))
       => UNCHANGED <<users, groups, transactions, categories>>]_vars

\* C9: a handler that calls verifyAuth answers 401 exactly when the decision
\* is unauthorized: a category request whose cookies satisfy the handler's
\* requirement is not answered with 401.
C9_401IffUnauthorized ==
    (pc = "done" /\ res.op \in CategoryOps)
    => (res.status = 401 <=> ~auth.authorized)

\* From an empty database no request ever stores a group: createGroup and
\* addToGroup end in the ReferenceError before their write.
NoGroupIsEverStored == groups = <<>>

\* C10: no email is a member of two groups and none appears twice in the
\* member list of one group.
OneGroupPerUser ==
    LET all == AllMemberEmails(groups)
    IN  \A i, j \in 1..Len(all) : all[i] = all[j] => i = j

----------------------------------------------------------------------------
(* SpecGroups: the handlers of users.js on a database that holds groups.   *)
(* createGroup and addToGroup never store a group (NoGroupIsEverStored),   *)
(* so the groups come with the database: it starts as the data model       *)
(* describes it (group names are unique, every group has a member, a user  *)
(* is a member of at most one group, every member is a user) and the users *)
(* are logged in.  A request is served in one step and then answered.      *)

\* getGroup (users.js 209-244).  No verifyAuth call (line 211: TODO).
getGroup(us, gs, ts, ck, name) ==
    LET group == FindOne(gs, {g \in Range(gs) : g.name = name})
    IN  IF group = Null
            THEN Outcome(us, gs, ts, "getGroup", 400, "Group does not exists", NoData)
        ELSE Outcome(us, gs, ts, "getGroup", 200, "",
                     [name |-> group.name, members |-> MemberEmails(group)])

\* The i-th principal after register and login.
Principal(i) ==
    [UserDoc(NamePool[i], MailPool[i], "Regular", OwnPassword(MailPool[i])) EXCEPT
        !.refreshToken = jwtSign(NamePool[i], MailPool[i], IdOf(MailPool[i]), "Regular")]

SeedUsers(n) == [i \in 1..n |-> Principal(i)]

\* The groups in which the user of email e is a member of group f[e] (or of
\* no group when f[e] = "none").
SeedGroups(us, f) ==
    LET membersOf(name) == SelectSeq(us, LAMBDA u : f[u.email] = name)
        names == SelectSeq([i \in 1..MaxGroups |-> GroupPool[i]],
                           LAMBDA name : membersOf(name) # <<>>)
    IN  [k \in 1..Len(names) |->
            [name |-> names[k],
             members |-> [i \in 1..Len(membersOf(names[k])) |->
                            [email |-> membersOf(names[k])[i].email,
                             user |-> membersOf(names[k])[i].id]]]]

InitGroups ==
    /\ \E n \in 1..MaxPrincipals :
        /\ users = SeedUsers(n)
        /\ \E f \in [{MailPool[i] : i \in 1..n} -> GroupNames \cup {"none"}] :
            groups = SeedGroups(SeedUsers(n), f)
    /\ transactions = {}
    /\ categories = <<>>
    /\ cookie = NoCookies
    /\ info = NoInfo
    /\ auth = NoAuth
    /\ res = NoRes
    /\ pc = "idle"

\* The cookies of a caller: none, or the pair a principal got at login.
CallerJars ==
    {NoCookies} \cup
    {[accessToken |-> Principal(i).refreshToken, refreshToken |-> Principal(i).refreshToken] :
        i \in 1..MaxPrincipals}

\* A request with cookies ck and parameters rq is served with outcome o.
Handle(ck, rq, o) ==
    /\ pc = "idle"
    /\ cookie' = ck
    /\ users' = o.users
    /\ groups' = o.groups
    /\ transactions' = o.transactions
    /\ res' = o.res @@ [req |-> rq]
    /\ pc' = "done"
    /\ UNCHANGED <<categories, info, auth>>

CreateGroupRq ==
    \E ck \in CallerJars, n \in GroupNames, es \in EmailLists :
        Handle(ck, [name |-> n, emails |-> es],
               createGroup(users, groups, transactions, ck, n, es))

AddToGroupRq ==
    \E n \in GroupNames, es \in EmailLists :
        Handle(NoCookies, [name |-> n, emails |-> es],
               addToGroup(users, groups, transactions, NoCookies, n, es))

RemoveFromGroupRq ==
    \E n \in GroupNames, es \in EmailLists :
        Handle(NoCookies, [name |-> n, emails |-> es],
               removeFromGroup(users, groups, transactions, NoCookies, n, es))

DeleteUserRq ==
    \E e \in Emails :
        Handle(NoCookies, [email |-> e],
               deleteUser(users, groups, transactions, NoCookies, e))

DeleteGroupRq ==
    \E n \in GroupNames :
        Handle(NoCookies, [name |-> n],
               deleteGroup(users, groups, transactions, NoCookies, n))

GetGroupRq ==
    \E n \in GroupNames :
        Handle(NoCookies, [name |-> n],
               getGroup(users, groups, transactions, NoCookies, n))

\* The two lookups of group.utils.js on a list of emails.
ResolveRq ==
    \E es \in EmailLists :
        Handle(NoCookies, [emails |-> es],
               Outcome(users, groups, transactions, "resolve", 0, "",
                       [existing |-> findExistingUsers(users, es),
                        grouped |-> findUsersGroup(groups, es)]))

NextGroups ==
    \/ CreateGroupRq
    \/ AddToGroupRq
    \/ RemoveFromGroupRq
    \/ DeleteUserRq
    \/ DeleteGroupRq
    \/ GetGroupRq
    \/ ResolveRq
    \/ Respond

SpecGroups == InitGroups /\ [][NextGroups]_vars

----------------------------------------------------------------------------
(* Properties of the group handlers, checked under SpecGroups.             *)

Handled(ops) == pc = "idle" /\ pc' = "done" /\ res'.op \in ops

HasGroup(gs, name) == \E i \in 1..Len(gs) : gs[i].name = name

\* The emails a removeFromGroup or deleteUser request asks to take out of
\* the group `name`.
AskedOut(r, gs, name) ==
    IF r.op = "removeFromGroup"
        THEN IF r.req.name = name THEN Range(r.req.emails) ELSE {}
    ELSE {r.req.email}

\* C11: when a removeFromGroup or deleteUser request removes the last member
\* of a group, the group is deleted: after the request the store holds no
\* group with an empty member list and getGroup for that name answers 400.
C11_EmptyGroupDeleted ==
    [][(Handled({"removeFromGroup", "deleteUser"}) /\ res'.status = 200)
       => /\ \A i \in 1..Len(groups') : groups'[i].members # <<>>
          /\ \A i \in 1..Len(groups) :
                Range(MemberEmails(groups[i])) \subseteq AskedOut(res', groups, groups[i].name)
                => /\ ~HasGroup(groups', groups[i].name)
                   /\ getGroup(users', groups', transactions', cookie',
                               groups[i].name).res.status = 400]_vars

\* C11 witness: a removeFromGroup that took the last two members out of a
\* group has been served, and the group is gone.
C11_Witness ==
    /\ pc = "done"
    /\ res.op = "removeFromGroup"
    /\ res.status = 200
    /\ res.data.group.members = <<>>
    /\ Len(res.req.emails) = 2
    /\ res.req.emails[1] # res.req.emails[2]
    /\ res.data.notInGroup = <<>>
    /\ res.data.membersNotFound = <<>>
    /\ ~HasGroup(groups, res.req.name)

IsUser(us, e) == \E i \in 1..Len(us) : us[i].email = e

Grouped(gs, e) == e \in Range(AllMemberEmails(gs))

MemberOf(gs, name, e) ==
    \E i \in 1..Len(gs) : gs[i].name = name /\ e \in Range(MemberEmails(gs[i]))

\* The emails a createGroup or addToGroup request supplies (for createGroup
\* with the creator's own) and the eligible ones among them: existing users
\* that are in no group.
Supplied(r, us, ck) ==
    IF r.op = "createGroup"
        THEN Range(r.req.emails) \cup {getUserFromToken(us, ck.refreshToken).email}
    ELSE Range(r.req.emails)

Eligible(r, us, gs, ck) == {e \in Supplied(r, us, ck) : IsUser(us, e) /\ ~Grouped(gs, e)}

\* The request gets as far as the eligibility test: a createGroup of an
\* identified caller for a new name, an addToGroup for an existing group.
ReachesEligibility(r, us, gs, ck) ==
    IF r.op = "createGroup"
        THEN getUserFromToken(us, ck.refreshToken) # Null /\ ~HasGroup(gs, r.req.name)
    ELSE r.req.emails # <<>> /\ HasGroup(gs, r.req.name)

\* C12: createGroup and addToGroup answer 400 and write nothing to the Group
\* store exactly when every supplied email (for createGroup with the
\* creator's) is not an existing user or is already in a group; with at
\* least one existing ungrouped user the request proceeds to the write.
C12_RejectsIffAllIneligible ==
    [][(/\ Handled({"createGroup", "addToGroup"})
        /\ ReachesEligibility(res', users, groups, cookie'))
       => IF Eligible(res', users, groups, cookie') = {}
              THEN res'.status = 400 /\ groups' = groups
          ELSE res'.status # 400 /\ groups' # groups]_vars

\* C13: removeFromGroup answers 400 and leaves the group as it is when every
\* supplied email is not an existing user or not a member of the named
\* group, also when a supplied email is a member of another group.
C13_RejectsWhenNoneInGroup ==
    [][(/\ Handled({"removeFromGroup"})
        /\ HasGroup(groups, res'.req.name)
        /\ \A e \in Range(res'.req.emails) :
                ~IsUser(users, e) \/ ~MemberOf(groups, res'.req.name, e))
       => res'.status = 400 /\ groups' = groups]_vars

\* C14: a successful createGroup creates a group whose members are the
\* eligible emails and reports membersNotFound (supplied, no such user) and
\* alreadyInGroup (supplied, in a group); and a createGroup of an identified
\* caller for a new name with an existing ungrouped A and an unknown B among
\* memberEmails is successful: status 200, A and the creator in the group,
\* membersNotFound = [B], alreadyInGroup = [].
C14_CreateGroupResult ==
    [][Handled({"createGroup"})
       => /\ res'.status = 200
             => /\ groups' = Append(groups, groups'[Len(groups')])
                /\ groups'[Len(groups')].name = res'.req.name
                /\ Range(MemberEmails(groups'[Len(groups')]))
                        = Eligible(res', users, groups, cookie')
                /\ Range(res'.data.group.members) = Eligible(res', users, groups, cookie')
                /\ Range(res'.data.membersNotFound)
                        = {e \in Supplied(res', users, cookie') : ~IsUser(users, e)}
                /\ Range(res'.data.alreadyInGroup)
                        = {e \in Supplied(res', users, cookie') : Grouped(groups, e)}
          /\ (/\ ReachesEligibility(res', users, groups, cookie')
              /\ \E a, b \in Range(res'.req.emails) :
                    /\ IsUser(users, a) /\ ~Grouped(groups, a)
                    /\ ~IsUser(users, b))
             => /\ res'.status = 200
                /\ HasGroup(groups', res'.req.name)
                /\ Range(res'.data.membersNotFound)
                        = {e \in Range(res'.req.emails) : ~IsUser(users, e)}]_vars

\* The two sequences are disjoint and together hold exactly the emails of
\* the input list.
Partitions(pair, emails) ==
    /\ Range(pair[1]) \cap Range(pair[2]) = {}
    /\ Range(pair[1]) \cup Range(pair[2]) = Range(emails)

\* C15: for every store and every list of emails, findExistingUsers(emails)
\* and findUsersGroup(emails) each return two disjoint sequences whose union
\* as a set is the input as a set: no email is dropped and none invented.
C15_LookupsPartition ==
    (pc = "done" /\ res.op = "resolve")
    => /\ Partitions(res.data.existing, res.req.emails)
       /\ Partitions(res.data.grouped, res.req.emails)

\* C15 witness: a list with a member of a group and an unknown email has
\* been resolved after a request changed the store.
C15_Witness ==
    /\ pc = "done"
    /\ res.op = "resolve"
    /\ Len(res.req.emails) = 2
    /\ Len(res.data.existing[1]) = 1
    /\ Len(res.data.existing[2]) = 1
    /\ Len(res.data.grouped[1]) = 1
    /\ Len(res.data.grouped[2]) = 1
    /\ Len(users) < MaxPrincipals
    /\ \A i \in 1..Len(users) : users[i].email # MailPool[1]

UniqueNames(gs) == \A i, j \in 1..Len(gs) : gs[i].name = gs[j].name => i = j

\* C20 as stated: createGroup for a name that already exists answers 400
\* and creates nothing, so no two groups ever share a name.
C20_Original ==
    [][Handled({"createGroup"})
       => /\ UniqueNames(groups')
          /\ HasGroup(groups, res'.req.name)
             => res'.status = 400 /\ groups' = groups]_vars

\* C20: createGroup for a name that already exists creates nothing, and it
\* answers 400 when the refreshToken cookie is the one stored on a user (the
\* caller is looked up before the name); no two groups ever share a name.
C20_Amended ==
    [][Handled({"createGroup"})
       => /\ UniqueNames(groups')
          /\ HasGroup(groups, res'.req.name)
             => /\ groups' = groups
                /\ getUserFromToken(users, cookie'.refreshToken) # Null
                   => res'.status = 400]_vars

\* C20 witness: a caller that is in no group asked for the name of an
\* existing group and was answered "Group already exists".
C20_Witness ==
    /\ pc = "done"
    /\ res.op = "createGroup"
    /\ res.status = 400
    /\ res.error = "Group already exists"
    /\ HasGroup(groups, res.req.name)
    /\ getUserFromToken(users, cookie.refreshToken) # Null
    /\ ~Grouped(groups, getUserFromToken(users, cookie.refreshToken).email)

----------------------------------------------------------------------------
(* SpecSession: register, registerAdmin, login, logout and a handler that  *)
(* calls verifyAuth (getCategories), one request at a time, from an empty  *)
(* database.                                                               *)

\* A request with cookies ck is served by a category handler, which called
\* verifyAuth with requirement inf.
HandleCategory(ck, inf, rq, o) ==
    /\ pc = "idle"
    /\ cookie' = ck
    /\ info' = inf
    /\ auth' = verifyAuth(ck, inf, WorkingRes)
    /\ categories' = o.categories
    /\ transactions' = o.transactions
    /\ res' = o.res @@ [req |-> rq]
    /\ pc' = "done"
    /\ UNCHANGED <<users, groups>>

RegisterRq ==
    \E u \in Usernames, e \in Emails :
        Handle(NoCookies, [username |-> u, email |-> e],
               register(users, groups, transactions, u, e, OwnPassword(e)))

RegisterAdminRq ==
    \E u \in Usernames, e \in Emails :
        Handle(NoCookies, [username |-> u, email |-> e],
               registerAdmin(users, groups, transactions, u, e, OwnPassword(e)))

LoginRq ==
    \E e \in Emails :
        Handle(NoCookies, [email |-> e],
               login(users, groups, transactions, e, OwnPassword(e), 0))

LogoutRq ==
    \E ck \in ClientJars(users) :
        Handle(ck, [cookies |-> ck], logout(users, groups, transactions, ck))

GetCategoriesRq ==
    \E ck \in ClientJars(users) :
        HandleCategory(ck, Simple, [cookies |-> ck],
                       getCategories(categories, transactions,
                                     verifyAuth(ck, Simple, WorkingRes)))

InitSession ==
    /\ EmptyStore
    /\ cookie = NoCookies
    /\ info = NoInfo
    /\ auth = NoAuth
    /\ res = NoRes
    /\ pc = "idle"

NextSession ==
    \/ RegisterRq
    \/ RegisterAdminRq
    \/ LoginRq
    \/ LogoutRq
    \/ GetCategoriesRq
    \/ Respond

SpecSession == InitSession /\ [][NextSession]_vars

----------------------------------------------------------------------------
(* Properties of the session handlers, checked under SpecSession.          *)

\* C16: a user document holds one refreshToken field: a successful login
\* overwrites it with the refresh token it issues (and touches no other
\* user), a successful logout sets it to null, and verifyAuth, renewing or
\* not, changes no stored refresh token and sets no refreshToken cookie.
C16_RefreshTokenLifecycle ==
    [][/\ (Handled({"login"}) /\ res'.status = 200)
          => /\ res'.data.refreshToken.present
             /\ Len(users') = Len(users)
             /\ \A i \in 1..Len(users) :
                    users'[i] = IF users[i].email = res'.req.email
                                    THEN [users[i] EXCEPT
                                            !.refreshToken = res'.data.refreshToken]
                                ELSE users[i]
       /\ (Handled({"logout"}) /\ res'.status = 200)
          => \E i \in 1..Len(users) :
                /\ users[i].refreshToken = cookie'.refreshToken
                /\ users' = [users EXCEPT ![i].refreshToken = NoToken]
       /\ Handled(CategoryOps)
          => /\ users' = users
             /\ "refreshToken" \notin auth'.cookiesSet]_vars

\* C16 witness: verifyAuth has renewed the access token of a user whose
\* stored refresh token is the one in the cookie, while another user is
\* logged out.
C16_Witness ==
    /\ pc = "done"
    /\ res.op = "getCategories"
    /\ auth.cookiesSet = {"accessToken"}
    /\ auth.accessCookie.present
    /\ \E i, j \in 1..Len(users) :
        /\ users[i].refreshToken = cookie.refreshToken
        /\ users[j].refreshToken = NoToken

UniqueUsers(us) ==
    \A i, j \in 1..Len(us) :
        (us[i].username = us[j].username \/ us[i].email = us[j].email) => i = j

\* C19: after any sequence of register and registerAdmin requests no two
\* stored users share a username and no two share an email; a request whose
\* username or email is that of an existing user gets 400 and creates no
\* user.
C19_UniqueUsers ==
    [][Handled({"register", "registerAdmin"})
       => /\ UniqueUsers(users')
          /\ (\E i \in 1..Len(users) :
                \/ users[i].username = res'.req.username
                \/ users[i].email = res'.req.email)
             => res'.status = 400 /\ users' = users]_vars

\* C19 witness: a registerAdmin with the username of an existing user and a
\* new email has been answered 400.
C19_Witness ==
    /\ pc = "done"
    /\ res.op = "registerAdmin"
    /\ res.status = 400
    /\ \E i \in 1..Len(users) :
        users[i].username = res.req.username /\ users[i].role = "Regular"
    /\ \A i \in 1..Len(users) : users[i].email # res.req.email

----------------------------------------------------------------------------
(* SpecRepeat: verifyAuth invoked again and again on the same request;     *)
(* res.given holds the cookies the request arrived with, res.previous the  *)
(* outcome of the invocation before the last.                              *)

\* number of invocations on one request
MaxCalls == 2

\* Variant: the renewed access token is written into req.cookies.
reqCookiesRenewed(ck, c) ==
    IF "accessToken" \in c.cookiesSet THEN [ck EXCEPT !.accessToken = c.accessCookie] ELSE ck

\* req.cookies after a call of verifyAuth that completed with c: verifyAuth
\* reads req.cookies (line 56) and writes the response only (line 121).
reqCookiesAfter(ck, c) == ck

InitRepeat ==
    /\ EmptyStore
    /\ cookie \in [accessToken : Tokens, refreshToken : Tokens]
    /\ info \in Requirements
    /\ auth = NoAuth
    /\ res = [op |-> "verifyAuth", status |-> 0, calls |-> 0, previous |-> NoAuth,
              given |-> cookie]
    /\ pc = "idle"

VerifyAuthAgain ==
    /\ res.calls < MaxCalls
    /\ auth' = verifyAuth(cookie, info, WorkingRes)
    /\ cookie' = reqCookiesAfter(cookie, auth')
    /\ res' = [res EXCEPT !.calls = @ + 1, !.previous = auth]
    /\ pc' = "done"
    /\ UNCHANGED <<users, groups, transactions, categories, info>>

NextRepeat == VerifyAuthAgain

SpecRepeat == InitRepeat /\ [][NextRepeat]_vars

\* C17: renewal is idempotent: on a request that carries an expired access
\* token and a valid refresh token, each further invocation of verifyAuth
\* gives the decision of the invocation before it and, when the refresh
\* token is complete and satisfies the requirement, again a new access token
\* with the username, email, role and id of the refresh token.
C17_RenewalIdempotent ==
    (/\ pc = "done"
     /\ res.calls >= 2
     /\ Expired(res.given.accessToken)
     /\ Valid(res.given.refreshToken))
    => /\ auth = res.previous
       /\ (Complete(res.given.refreshToken) /\ ReqHolds(info, res.given.refreshToken))
          => /\ auth.authorized
             /\ auth.cookiesSet = {"accessToken"}
             /\ Valid(auth.accessCookie)
             /\ auth.accessCookie.username = res.given.refreshToken.username
             /\ auth.accessCookie.email = res.given.refreshToken.email
             /\ auth.accessCookie.role = res.given.refreshToken.role
             /\ auth.accessCookie.id = res.given.refreshToken.id

\* C17 witness: the last of the invocations has renewed the access token
\* (of another identity) for the User requirement.
C17_Witness ==
    /\ pc = "done"
    /\ res.calls = MaxCalls
    /\ cookie = res.given
    /\ Expired(cookie.accessToken)
    /\ Valid(cookie.refreshToken)
    /\ cookie.accessToken.username # cookie.refreshToken.username
    /\ info = User(cookie.refreshToken.username)
    /\ auth.authorized
    /\ auth.accessCookie.present
    /\ res.previous.accessCookie.present

----------------------------------------------------------------------------
(* SpecCookieFault: verifyAuth with a response whose res.cookie may throw. *)

\* The names of the errors res.cookie throws (express: an invalid option,
\* a signed cookie without a secret).
CookieErrors == {"TypeError", "Error"}

InitCookieFault ==
    /\ EmptyStore
    /\ cookie \in [accessToken : Tokens, refreshToken : Tokens]
    /\ info \in Requirements
    /\ auth = NoAuth
    /\ res = NoRes
    /\ pc = "idle"

VerifyAuthFault ==
    /\ pc = "idle"
    /\ \E e \in CookieErrors \cup {"none"} :
        /\ auth' = verifyAuth(cookie, info, Response(e))
        /\ res' = [op |-> "verifyAuth", status |-> 0, cookieErr |-> e]
    /\ pc' = "done"
    /\ UNCHANGED <<users, groups, transactions, categories, cookie, info>>

NextCookieFault == VerifyAuthFault

SpecCookieFault == InitCookieFault /\ [][NextCookieFault]_vars

\* C18: a failure of the renewal write never fails the authorization: with
\* an expired access token and a valid, complete refresh token that
\* satisfies the requirement verifyAuth returns authorized: true, also when
\* setting the accessToken cookie throws.
C18_RenewalWriteNeverFails ==
    (/\ pc = "done"
     /\ Expired(cookie.accessToken)
     /\ Valid(cookie.refreshToken)
     /\ Complete(cookie.refreshToken)
     /\ ReqHolds(info, cookie.refreshToken))
    => auth.kind = "return" /\ auth.authorized

----------------------------------------------------------------------------
(* The advisory message of a renewal, checked under SpecSession.           *)

Renewed(c) == "accessToken" \in c.cookiesSet

\* C21: when verifyAuth renews the access token, the advisory message it
\* sets is the one the calling handler surfaces: it is stored under the
\* property of res.locals that the handler copies into its body, and a 200
\* response of a request in which a renewal happened carries it as a
\* non-empty refreshedTokenMessage.
C21_MessageSurfaced ==
    (pc = "done" /\ res.op \in CategoryOps /\ Renewed(auth))
    => /\ auth.message = RefreshedMessage
       /\ Surfaced(auth) = Str(auth.message)
       /\ res.status = 200 => res.refreshedTokenMessage = Str(RefreshedMessage)

----------------------------------------------------------------------------
(* The group handlers step by step.  A handler is an async function: each  *)
(* await of a store operation is a point where another request may run.    *)
(* A request in flight is a record r of the handler's locals with the log  *)
(* of the store operations it has issued; its position is the last await   *)
(* it completed: "start", "caller", "group", "found", "membership",        *)
(* "members", "pulled", "done".  A step runs the code up to and including  *)
(* the next store operation and gives the new position, the new locals and *)
(* the Group collection after the operation.                               *)

NoReq == [op |-> "none"]

NewReq(op, ck, name, emails) ==
    [op |-> op, ck |-> ck, name |-> name, emails |-> emails,
     currUser |-> Null, memberEmails |-> emails, group |-> Null,
     membersFound |-> <<>>, membersNotFound |-> <<>>,
     membersNotInGroup |-> <<>>, membersInGroup |-> <<>>,
     members |-> <<>>, updatedGroup |-> Null, log |-> <<>>,
     status |-> 0, error |-> "", data |-> NoData]

\* The store operation `call` with argument `arg` has been awaited.
Awaited(r, call, arg) == [r EXCEPT !.log = Append(@, [call |-> call, arg |-> arg])]

At(position, r, gs) == [pc |-> position, r |-> r, groups |-> gs]

\* res.status(status).json(...): the handler returns.
Answer(r, gs, status, error, data) ==
    At("done", [r EXCEPT !.status = status, !.error = error, !.data = data], gs)

\* lines 128-131, 293, 374: await findExistingUsers(emails).
awaitFindExistingUsers(r, us, gs, emails) ==
    LET fe == findExistingUsers(us, emails)
    IN  At("found",
           Awaited([r EXCEPT !.membersFound = fe[1], !.membersNotFound = fe[2]],
                   "findExistingUsers", emails),
           gs)

\* Variant: the membership lookup is given the supplied emails.
awaitFindUsersGroupSupplied(r, us, gs) ==
    LET fg == findUsersGroup(gs, r.memberEmails)
    IN  At("membership",
           Awaited([r EXCEPT !.membersNotInGroup = fg[1], !.membersInGroup = fg[2]],
                   "findUsersGroup", r.memberEmails),
           gs)

\* lines 134-136, 296-298, 377-379: await findUsersGroup(membersFound).
awaitFindUsersGroup(r, us, gs) ==
    LET fg == findUsersGroup(gs, r.membersFound)
    IN  At("membership",
           Awaited([r EXCEPT !.membersNotInGroup = fg[1], !.membersInGroup = fg[2]],
                   "findUsersGroup", r.membersFound),
           gs)

\* lines 145, 307: await getUserReference(membersNotInGroup).
awaitGetUserReference(r, us, gs) ==
    IF "getUserReference" \notin UsersJsScope
        THEN Answer(r, gs, 500, "ReferenceError", NoData)
    ELSE At("members",
            Awaited([r EXCEPT !.members = getUserReference(us, r.membersNotInGroup)],
                    "getUserReference", r.membersNotInGroup),
            gs)

\* createGroup (users.js 93-160).
createGroupStep(position, r, us, gs) ==
    CASE position = "start" ->
            LET currUser == getUserFromToken(us, r.ck.refreshToken)
                r1 == Awaited([r EXCEPT !.currUser = currUser], "getUserFromToken", <<>>)
            IN  IF currUser = Null
                    \* line 118: currUser.email of null
                    THEN Answer(r1, gs, 500, "TypeError", NoData)
                ELSE At("caller",
                        [r1 EXCEPT !.memberEmails =
                            IF currUser.email \notin Range(r.emails)
                                THEN Append(r.emails, currUser.email) ELSE r.emails],
                        gs)
      [] position = "caller" ->
            At("group",
               Awaited([r EXCEPT !.group = FindOne(gs, {g \in Range(gs) : g.name = r.name})],
                       "Group.findOne", <<r.name>>),
               gs)
      [] position = "group" ->
            IF r.group # Null
                THEN Answer(r, gs, 400, "Group already exists", NoData)
            ELSE awaitFindExistingUsers(r, us, gs, r.memberEmails)
      [] position = "found" -> awaitFindUsersGroup(r, us, gs)
      [] position = "membership" ->
            IF Len(r.membersFound) = Len(r.membersInGroup)
                THEN Answer(r, gs, 400, "User don't exit or already in a group", NoData)
            ELSE awaitGetUserReference(r, us, gs)
      [] position = "members" ->
            LET savedGroup == [name |-> r.name, members |-> r.members]
            IN  Answer(Awaited([r EXCEPT !.updatedGroup = savedGroup],
                               "Group.create", <<r.name>>),
                       Append(gs, savedGroup), 200, "",
                       [group |-> [name |-> r.name, members |-> MemberEmails(savedGroup)],
                        alreadyInGroup |-> r.membersInGroup,
                        membersNotFound |-> r.membersNotFound])

\* addToGroup (users.js 257-326).
addToGroupStep(position, r, us, gs) ==
    CASE position = "start" ->
            IF Len(r.emails) = 0
                THEN Answer(r, gs, 400, "List is empty", NoData)
            ELSE At("group",
                    Awaited([r EXCEPT !.group = FindOne(gs, {g \in Range(gs) : g.name = r.name})],
                            "Group.findOne", <<r.name>>),
                    gs)
      [] position = "group" ->
            IF r.group = Null
                THEN Answer(r, gs, 400, "Group does not exist", NoData)
            ELSE awaitFindExistingUsers(r, us, gs, r.emails)
      [] position = "found" -> awaitFindUsersGroup(r, us, gs)
      [] position = "membership" ->
            IF Len(r.membersFound) = Len(r.membersInGroup)
                THEN Answer(r, gs, 400, "Users don't exist or already in a group", NoData)
            ELSE awaitGetUserReference(r, us, gs)
      [] position = "members" ->
            IF ~\E i \in 1..Len(gs) : gs[i].name = r.name
                \* findOneAndUpdate gives null; line 316: group.name of null
                THEN Answer(Awaited(r, "Group.findOneAndUpdate", <<r.name>>),
                            gs, 500, "TypeError", NoData)
            ELSE LET gs2 == PushMembers(gs, r.name, r.members)
                     updatedGroup == FindOne(gs2, {g \in Range(gs2) : g.name = r.name})
                 IN  Answer(Awaited([r EXCEPT !.updatedGroup = updatedGroup],
                                    "Group.findOneAndUpdate", <<r.name>>),
                            gs2, 200, "",
                            [group |-> [name |-> r.name,
                                        members |-> MemberEmails(updatedGroup)],
                             alreadyInGroup |-> r.membersInGroup,
                             membersNotFound |-> r.membersNotFound])

\* removeFromGroup (users.js 338-418).
removeFromGroupStep(position, r, us, gs) ==
    CASE position = "start" ->
            IF Len(r.emails) = 0
                THEN Answer(r, gs, 400, "List is empty", NoData)
            ELSE At("group",
                    Awaited([r EXCEPT !.group = FindOne(gs, {g \in Range(gs) : g.name = r.name})],
                            "Group.findOne", <<r.name>>),
                    gs)
      [] position = "group" ->
            IF r.group = Null
                THEN Answer(r, gs, 400, "Group does not exist", NoData)
            ELSE awaitFindExistingUsers(r, us, gs, r.emails)
      [] position = "found" -> awaitFindUsersGroup(r, us, gs)
      [] position = "membership" ->
            IF Len(r.membersFound) = Len(r.membersNotInGroup)
                THEN Answer(r, gs, 400, "Users don't exist or not in a group", NoData)
            ELSE IF ~\E i \in 1..Len(gs) : gs[i].name = r.name
                \* findOneAndUpdate gives null; line 402: updatedGroup.members of null
                THEN Answer(Awaited(r, "Group.findOneAndUpdate", <<r.name>>),
                            gs, 500, "TypeError", NoData)
            ELSE LET membersToRemove ==
                         arrayIntersection(r.membersInGroup, MemberEmails(r.group))
                     gs2 == PullMembers(gs, r.name, Range(membersToRemove))
                     updatedGroup == FindOne(gs2, {g \in Range(gs2) : g.name = r.name})
                 IN  At("pulled",
                        Awaited([r EXCEPT !.updatedGroup = updatedGroup],
                                "Group.findOneAndUpdate", <<r.name>>),
                        gs2)
      [] position = "pulled" ->
            LET data == [group |-> [name |-> r.name,
                                    members |-> MemberEmails(r.updatedGroup)],
                         notInGroup |-> r.membersNotInGroup,
                         membersNotFound |-> r.membersNotFound]
            IN  IF Len(r.updatedGroup.members) = 0
                    THEN Answer(Awaited(r, "Group.findOneAndDelete", <<r.name>>),
                                DeleteFirst(gs, {g \in Range(gs) : g.name = r.name}),
                                200, "", data)
                ELSE Answer(r, gs, 200, "", data)

handlerStep(position, r, us, gs) ==
    CASE r.op = "createGroup" -> createGroupStep(position, r, us, gs)
      [] r.op = "addToGroup" -> addToGroupStep(position, r, us, gs)
      [] r.op = "removeFromGroup" -> removeFromGroupStep(position, r, us, gs)

----------------------------------------------------------------------------
(* SpecSteps: one request at a time, step by step, on a database that      *)
(* holds groups.  In this specification res is the sequence of the         *)
(* requests in flight and pc the sequence of their positions.              *)

SeededStore ==
    /\ \E n \in 1..MaxPrincipals :
        /\ users = SeedUsers(n)
        /\ \E f \in [{MailPool[i] : i \in 1..n} -> GroupNames \cup {"none"}] :
            groups = SeedGroups(SeedUsers(n), f)
    /\ transactions = {}
    /\ categories = <<>>
    /\ cookie = NoCookies
    /\ info = NoInfo
    /\ auth = NoAuth

InitSteps ==
    /\ SeededStore
    /\ res = <<NoReq>>
    /\ pc = <<"idle">>

\* A request arrives.
Arrive(i, r) ==
    /\ pc[i] = "idle"
    /\ pc' = [pc EXCEPT ![i] = "start"]
    /\ res' = [res EXCEPT ![i] = r]
    /\ UNCHANGED <<users, groups, transactions, categories, cookie, info, auth>>

ArriveCreateGroup ==
    \E i \in 1..Len(pc), ck \in CallerJars, n \in GroupNames, es \in EmailLists :
        Arrive(i, NewReq("createGroup", ck, n, es))

ArriveAddToGroup ==
    \E i \in 1..Len(pc), n \in GroupNames, es \in EmailLists :
        Arrive(i, NewReq("addToGroup", NoCookies, n, es))

ArriveRemoveFromGroup ==
    \E i \in 1..Len(pc), n \in GroupNames, es \in EmailLists :
        Arrive(i, NewReq("removeFromGroup", NoCookies, n, es))

\* A request in flight runs to its next await or to its response.
Step ==
    \E i \in 1..Len(pc) :
        /\ pc[i] \notin {"idle", "done"}
        /\ LET s == handlerStep(pc[i], res[i], users, groups)
           IN  /\ pc' = [pc EXCEPT ![i] = s.pc]
               /\ res' = [res EXCEPT ![i] = s.r]
               /\ groups' = s.groups
        /\ UNCHANGED <<users, transactions, categories, cookie, info, auth>>

\* The response has been sent.
Leave ==
    \E i \in 1..Len(pc) :
        /\ pc[i] = "done"
        /\ pc' = [pc EXCEPT ![i] = "idle"]
        /\ res' = [res EXCEPT ![i] = NoReq]
        /\ UNCHANGED <<users, groups, transactions, categories, cookie, info, auth>>

NextSteps ==
    \/ ArriveCreateGroup
    \/ ArriveAddToGroup
    \/ ArriveRemoveFromGroup
    \/ Step
    \/ Leave

SpecSteps == InitSteps /\ [][NextSteps]_vars

\* SpecRace: the same with two requests in flight at once.
InitRace ==
    /\ SeededStore
    /\ res = <<NoReq, NoReq>>
    /\ pc = <<"idle", "idle">>

SpecRace == InitRace /\ [][NextSteps]_vars

\* Run one at a time, the steps of a handler add up to the handler: the
\* response of a request and the Group collection it leaves are those of
\* createGroup, addToGroup and removeFromGroup on the store it found.
Whole(r, us, gs) ==
    CASE r.op = "createGroup" -> createGroup(us, gs, {}, r.ck, r.name, r.emails)
      [] r.op = "addToGroup" -> addToGroup(us, gs, {}, r.ck, r.name, r.emails)
      [] r.op = "removeFromGroup" -> removeFromGroup(us, gs, {}, r.ck, r.name, r.emails)

StepsAddUp ==
    [][\A i \in 1..Len(pc) :
        /\ (pc[i] \notin {"idle", "done", "pulled"} /\ pc'[i] = "done")
           => LET o == Whole(res[i], users, groups)
              IN  /\ o.groups = groups'
                  /\ o.res.status = res'[i].status
                  /\ o.res.error = res'[i].error
                  /\ o.res.data = res'[i].data
        /\ (pc[i] = "membership" /\ pc'[i] = "pulled")
           => LET o == Whole(res[i], users, groups)
              IN  /\ o.res.status = 200
                  /\ o.res.data.group.members = MemberEmails(res'[i].updatedGroup)
                  /\ o.groups = IF res'[i].updatedGroup.members = <<>>
                                    THEN DeleteFirst(groups', {g \in Range(groups') :
                                                                g.name = res[i].name})
                                ELSE groups'
        /\ (pc[i] \notin {"idle", "done"} /\ pc'[i] \notin {"done", "pulled"})
           => groups' = groups]_vars

----------------------------------------------------------------------------
(* Interleaved requests, checked under SpecRace.                           *)

GroupWrites == {"Group.create", "Group.findOneAndUpdate", "Group.findOneAndDelete"}

Issued(r, calls) == {k \in 1..Len(r.log) : r.log[k].call \in calls}

\* No createGroup and no addToGroup request ever issues a write to the Group
\* collection, in any interleaving: each ends in the ReferenceError of lines
\* 145 and 307 on its own path.  The only writers are the $pull and the
\* delete of removeFromGroup, so no interleaving can add a member: the
\* properties C22 and C23 ask about (no email in two groups after two
\* interleaved createGroup/addToGroup, no member added between the pull and
\* the delete of removeFromGroup is lost) hold for lack of a case.
NoMemberIsEverAdded ==
    \A i \in 1..Len(res) :
        res[i].op \in {"createGroup", "addToGroup"} => Issued(res[i], GroupWrites) = {}

\* The delete of removeFromGroup (line 403) removes a group without members.
DeletesOnlyEmptyGroups ==
    [][\A i \in 1..Len(pc) :
        (pc[i] = "pulled" /\ pc'[i] = "done" /\ groups' # groups)
        => FindOne(groups, {g \in Range(groups) : g.name = res[i].name}).members = <<>>]_vars

----------------------------------------------------------------------------
(* The effect of removeFromGroup, addToGroup and deleteUser, checked under *)
(* SpecGroups.                                                             *)

\* The emails of the members of the group `name`.
MembersOfGroup(gs, name) == {e \in Emails : MemberOf(gs, name, e)}

\* The emails a request took out of the group it names.
RemovedBy(r, gs, gs2) == MembersOfGroup(gs, r.req.name) \ MembersOfGroup(gs2, r.req.name)

\* C24: on a 200 of removeFromGroup every supplied email is accounted for:
\* it has been removed from the named group or is reported in notInGroup or
\* in membersNotFound; and the emails removed are exactly the supplied
\* emails that were members of the named group.
C24_RemovalAccounted ==
    [][(Handled({"removeFromGroup"}) /\ res'.status = 200)
       => /\ \A e \in Range(res'.req.emails) :
                \/ e \in RemovedBy(res', groups, groups')
                \/ e \in Range(res'.data.notInGroup)
                \/ e \in Range(res'.data.membersNotFound)
          /\ RemovedBy(res', groups, groups')
                = Range(res'.req.emails) \cap MembersOfGroup(groups, res'.req.name)]_vars

\* The second half of C24 alone: removeFromGroup removes exactly the supplied
\* emails that were members of the named group, and touches no other group.
RemovesExactlyTheMembersSupplied ==
    [][(Handled({"removeFromGroup"}) /\ res'.status = 200)
       => /\ RemovedBy(res', groups, groups')
                = Range(res'.req.emails) \cap MembersOfGroup(groups, res'.req.name)
          /\ \A n \in GroupNames \ {res'.req.name} :
                MembersOfGroup(groups', n) = MembersOfGroup(groups, n)]_vars

\* The effect C25 describes: the named group holds its previous members and
\* the eligible emails, in that order, no other group is modified, and
\* every supplied email is added or reported in one of the two lists.
AddedAndReported(r, us, gs, gs2, ck) ==
    LET k == CHOOSE i \in 1..Len(gs) : gs[i].name = r.req.name
    IN  /\ Len(gs2) = Len(gs)
        /\ \A i \in 1..Len(gs) : i # k => gs2[i] = gs[i]
        /\ gs2[k].name = r.req.name
        /\ SubSeq(gs2[k].members, 1, Len(gs[k].members)) = gs[k].members
        /\ {gs2[k].members[i].email : i \in (Len(gs[k].members) + 1)..Len(gs2[k].members)}
                = Eligible(r, us, gs, ck)
        /\ Len(gs2[k].members) = Len(gs[k].members) + Cardinality(Eligible(r, us, gs, ck))
        /\ r.data.group = [name |-> r.req.name, members |-> MemberEmails(gs2[k])]
        /\ \A e \in Range(r.req.emails) :
                \/ e \in Eligible(r, us, gs, ck)
                \/ e \in Range(r.data.alreadyInGroup)
                \/ e \in Range(r.data.membersNotFound)
        /\ Range(r.data.alreadyInGroup) = {e \in Range(r.req.emails) : Grouped(gs, e)}
        /\ Range(r.data.membersNotFound) = {e \in Range(r.req.emails) : ~IsUser(us, e)}

\* C25: a successful addToGroup leaves the named group with exactly its
\* previous members plus the supplied emails that are existing ungrouped
\* users, modifies no other group, and reports alreadyInGroup and
\* membersNotFound so that every supplied email is added or in one of the
\* two lists; and an addToGroup to an existing group that supplies an
\* existing ungrouped user is successful.
C25_AddToGroupEffect ==
    [][Handled({"addToGroup"})
       => /\ res'.status = 200
             => AddedAndReported(res', users, groups, groups', cookie')
          /\ (/\ ReachesEligibility(res', users, groups, cookie')
              /\ Eligible(res', users, groups, cookie') # {})
             => res'.status = 200]_vars

----------------------------------------------------------------------------
(* The order of the store operations of a request, checked under SpecSteps. *)

\* The emails the request supplies to the first lookup.
SuppliedTo(r) == IF r.op = "createGroup" THEN r.memberEmails ELSE r.emails

\* The ineligibility test has passed on the results of the two lookups.
PassedIneligibility(r) ==
    IF r.op = "removeFromGroup" THEN r.membersInGroup # <<>> ELSE r.membersNotInGroup # <<>>

\* C26: in createGroup, addToGroup and removeFromGroup the lookups run in a
\* fixed order: the user-existence lookup on the supplied emails first, then
\* the group-membership lookup on the found subset only; and a write to the
\* Group store is issued only after both lookups and after the
\* ineligibility test has passed.
C26_LookupOrder ==
    \A i \in 1..Len(res) :
        res[i].op # "none"
        => LET r == res[i]
               fe == Issued(r, {"findExistingUsers"})
               fg == Issued(r, {"findUsersGroup"})
           IN  /\ Cardinality(fe) <= 1
               /\ Cardinality(fg) <= 1
               /\ \A j \in fe : r.log[j].arg = SuppliedTo(r)
               /\ \A k \in fg :
                    /\ \E j \in fe : j < k
                    /\ r.log[k].arg = r.membersFound
                    /\ Range(r.log[k].arg)
                            = {e \in Range(SuppliedTo(r)) : IsUser(users, e)}
               /\ \A w \in Issued(r, GroupWrites) :
                    /\ \E j \in fe, k \in fg : j < k /\ k < w
                    /\ PassedIneligibility(r)

\* C26 witness: a removeFromGroup that supplied a member and an email of no
\* user has looked up both, pulled the member and deleted the emptied group.
C26_Witness ==
    \E i \in 1..Len(res) :
        /\ pc[i] = "done"
        /\ res[i].op = "removeFromGroup"
        /\ res[i].status = 200
        /\ res[i].membersNotFound # <<>>
        /\ Len(res[i].membersFound) < Len(res[i].emails)
        /\ [k \in 1..Len(res[i].log) |-> res[i].log[k].call]
                = <<"Group.findOne", "findExistingUsers", "findUsersGroup",
                    "Group.findOneAndUpdate", "Group.findOneAndDelete">>

----------------------------------------------------------------------------
(* SpecDelete: deleteUser on a database that holds groups and              *)
(* transactions.                                                           *)

CreateTransactionRq ==
    /\ Cardinality(transactions) < MaxTransactions
    /\ \E ck \in CallerJars \ {NoCookies}, u \in Usernames, t \in Types :
        Handle(ck, [username |-> u, type |-> t],
               createTransaction(users, groups, transactions, ck, u, t))

NextDelete ==
    \/ CreateTransactionRq
    \/ DeleteUserRq
    \/ RemoveFromGroupRq
    \/ Respond

SpecDelete == InitGroups /\ [][NextDelete]_vars

\* C27: after a successful deleteUser(email) the user is absent from the
\* User store (and no other user is), no group has email as a member, a
\* group left empty by the removal has been deleted, the transactions with
\* the user's username are deleted (and no others), and deletedFromGroup in
\* the response is true exactly when the user was a member of a group before
\* the request.
C27_DeleteUserEffect ==
    [][(Handled({"deleteUser"}) /\ res'.status = 200)
       => LET email == res'.req.email
              user == FindOne(users, {u \in Range(users) : u.email = email})
          IN  /\ user # Null
              /\ ~IsUser(users', email)
              /\ users' = SelectSeq(users, LAMBDA u : u.email # email)
              /\ ~Grouped(groups', email)
              /\ \A i \in 1..Len(groups') : groups'[i].members # <<>>
              /\ \A i \in 1..Len(groups) :
                    Range(MemberEmails(groups[i])) \subseteq {email}
                    => ~HasGroup(groups', groups[i].name)
              /\ transactions' = {t \in transactions : t.username # user.username}
              /\ res'.data.deletedTransactions
                    = Cardinality({t \in transactions : t.username = user.username})
              /\ res'.data.deletedFromGroup = Grouped(groups, email)]_vars

\* C27 witness: a deleteUser of the only member of a group who had a
\* transaction has been served: the group and the transaction are gone.
C27_Witness ==
    /\ pc = "done"
    /\ res.op = "deleteUser"
    /\ res.status = 200
    /\ res.data.deletedFromGroup
    /\ res.data.deletedTransactions = 1
    /\ transactions = {}
    /\ Len(groups) = 1
    /\ Len(users) = 1
    /\ Grouped(groups, users[1].email)
----------------------------------------------------------------------------
(* SpecLogin: register, login and logout with passwords and issue times,   *)
(* from an empty database.  `cookie` is the cookie jar of one client, kept *)
(* from one request to the next: a response that sets cookies replaces     *)
(* them in the jar, and the client keeps a token after its expiry.  Other  *)
(* clients present tokens the system issued at any time.  Only the         *)
(* equality of issue times is observable, so requests draw the time from   *)
(* Clock in any order.                                                     *)

\* The jar after a response that set `cookies`.
Stored(jar, cookies) ==
    [accessToken |-> IF "accessToken" \in DOMAIN cookies
                        THEN cookies.accessToken ELSE jar.accessToken,
     refreshToken |-> IF "refreshToken" \in DOMAIN cookies
                         THEN cookies.refreshToken ELSE jar.refreshToken]

\* The cookies verifyAuth set on the response (line 121).
RenewedCookies(c) ==
    IF Renewed(c) THEN [accessToken |-> c.accessCookie] ELSE NoSetCookie

\* The refresh tokens login can have issued to a user.
TokensOf(u) == {jwtSignAt(u.username, u.email, u.id, u.role, now) : now \in Clock}

OtherJars(us) ==
    {NoCookies} \cup
    {[accessToken |-> t, refreshToken |-> t] :
        t \in UNION {TokensOf(us[i]) : i \in 1..Len(us)}}

\* A request with cookies ck and parameters rq is served with outcome o; the
\* client's jar becomes `jar`.
HandleFor(ck, rq, o, jar) ==
    /\ pc = "idle"
    /\ cookie' = jar
    /\ users' = o.users
    /\ groups' = o.groups
    /\ transactions' = o.transactions
    /\ res' = o.res @@ [req |-> rq @@ [cookies |-> ck]]
    /\ pc' = "done"
    /\ UNCHANGED <<categories, info, auth>>

\* A principal registers under its own name and email, with any password.
RegisterWithPassword ==
    \E i \in 1..MaxPrincipals, p \in Passwords :
        HandleFor(cookie, [username |-> NamePool[i], email |-> MailPool[i], password |-> p],
                  register(users, groups, transactions, NamePool[i], MailPool[i], p), cookie)

LoginWithPassword ==
    \E e \in Emails, p \in Passwords, now \in Clock :
        LET o == login(users, groups, transactions, e, p, now)
        IN  HandleFor(cookie, [email |-> e, password |-> p], o,
                      Stored(cookie, o.res.cookies))

\* logout clears the cookies without the domain login set them with (lines
\* 134-135, 157-158), so the client drops them or keeps them.
LogoutOwn ==
    LET o == logout(users, groups, transactions, cookie)
    IN  \E jar \in {Stored(cookie, o.res.cookies), cookie} :
            HandleFor(cookie, [client |-> "own"], o, jar)

LogoutOther ==
    \E ck \in OtherJars(users) :
        HandleFor(ck, [client |-> "other"], logout(users, groups, transactions, ck), cookie)

\* The client calls a handler that calls verifyAuth with requirement Simple.
GetCategoriesOwn ==
    LET c == verifyAuth(cookie, Simple, WorkingRes)
        o == getCategories(categories, transactions, c)
    IN  /\ pc = "idle"
        /\ cookie' = Stored(cookie, RenewedCookies(c))
        /\ info' = Simple
        /\ auth' = c
        /\ categories' = o.categories
        /\ transactions' = o.transactions
        /\ res' = o.res @@ [req |-> [cookies |-> cookie]]
        /\ pc' = "done"
        /\ UNCHANGED <<users, groups>>

\* A token of the jar passes its expiry.
Expire ==
    /\ pc = "idle"
    /\ \/ /\ cookie.accessToken.present
          /\ ~cookie.accessToken.expired
          /\ cookie' = [cookie EXCEPT !.accessToken = Aged(@)]
       \/ /\ cookie.refreshToken.present
          /\ ~cookie.refreshToken.expired
          /\ cookie' = [cookie EXCEPT !.refreshToken = Aged(@)]
    /\ UNCHANGED <<users, groups, transactions, categories, info, auth, res, pc>>

\* The response has been sent; the jar stays.
Received ==
    /\ pc = "done"
    /\ info' = NoInfo
    /\ auth' = NoAuth
    /\ res' = NoRes
    /\ pc' = "idle"
    /\ UNCHANGED <<users, groups, transactions, categories, cookie>>

NextLogin ==
    \/ RegisterWithPassword
    \/ LoginWithPassword
    \/ LogoutOwn
    \/ LogoutOther
    \/ GetCategoriesOwn
    \/ Expire
    \/ Received

SpecLogin == InitSession /\ [][NextLogin]_vars

----------------------------------------------------------------------------
(* Properties of login and logout, checked under SpecLogin.                *)

StoredBy(us, t) == \E i \in 1..Len(us) : us[i].refreshToken = t

\* A token issued to a user who now stores a token of another issue time.
Superseded(us, t) ==
    \E i \in 1..Len(us) :
        /\ us[i].refreshToken.present
        /\ t \in TokensOf(us[i])
        /\ t # us[i].refreshToken

\* C28: a logout whose refreshToken cookie is absent or equals no stored
\* refreshToken responds 400 and changes no user; so does a second logout
\* with the refresh token of a successful one, and a logout with the
\* refresh token of a login that a later login of the same user at another
\* time has superseded.
C28_LogoutNotFound ==
    [][Handled({"logout"})
          => LET refreshToken == res'.req.cookies.refreshToken
             IN  /\ (~refreshToken.present \/ ~StoredBy(users, refreshToken))
                    => res'.status = 400 /\ users' = users
                 /\ Superseded(users, refreshToken)
                    => res'.status = 400 /\ users' = users
                 /\ res'.status = 200
                    => LET again == logout(users', groups', transactions',
                                           res'.req.cookies)
                       IN  again.res.status = 400 /\ again.users = users']_vars

\* C28 witness: a logout with the refresh token of a superseded login has
\* been refused while the client that logged in again holds the stored one.
C28_Witness ==
    /\ pc = "done"
    /\ res.op = "logout"
    /\ res.status = 400
    /\ res.req.cookies.refreshToken.present
    /\ Superseded(users, res.req.cookies.refreshToken)
    /\ StoredBy(users, cookie.refreshToken)
    /\ cookie.refreshToken.present

\* A successful logout has happened: the token it carried is stored no more.
C28_WitnessLoggedOut ==
    /\ pc = "done"
    /\ res.op = "logout"
    /\ res.status = 200
    /\ ~StoredBy(users, res.req.cookies.refreshToken)

UserWithEmail(us, email) == FindOne(us, {u \in Range(us) : u.email = email})

\* C29: a login with an email no user has, or with a password that does not
\* match the stored hash, responds 400, sets no accessToken and no
\* refreshToken cookie and leaves every stored refreshToken as it was.
C29_LoginRefused ==
    [][Handled({"login"})
          => LET existingUser == UserWithEmail(users, res'.req.email)
             IN  (\/ existingUser = Null
                  \/ existingUser.password # bcryptHash(res'.req.password))
                    => /\ res'.status = 400
                       /\ DOMAIN res'.cookies = {}
                       /\ cookie' = cookie
                       /\ users' = users]_vars

\* C29 witness: a login with the wrong password has been refused to a client
\* that holds the tokens of an earlier login of the same user.
C29_Witness ==
    /\ pc = "done"
    /\ res.op = "login"
    /\ res.status = 400
    /\ res.error = "wrong credentials"
    /\ cookie.refreshToken.present
    /\ cookie.refreshToken.email = res.req.email
    /\ StoredBy(users, cookie.refreshToken)

SameClaims(a, r) == a.username = r.username /\ a.email = r.email /\ a.role = r.role

\* C30: the access token a client holds after a login and any number of
\* renewals carries the username, email and role of the refresh token of
\* that login, verifyAuth never answers "Mismatched users" to the pair, and
\* verifyAuth with requirement Simple authorizes the pair a successful login
\* returned.
C30_SameClaims ==
    [][/\ (cookie'.accessToken.present /\ cookie'.refreshToken.present)
          => SameClaims(cookie'.accessToken, cookie'.refreshToken)
       /\ Handled({"getCategories"})
          => /\ auth'.cause # "Mismatched users"
             /\ Renewed(auth') => SameClaims(auth'.accessCookie, cookie.refreshToken)
       /\ (Handled({"login"}) /\ res'.status = 200)
          => /\ cookie' = [accessToken |-> res'.data.accessToken,
                           refreshToken |-> res'.data.refreshToken]
             /\ SameClaims(res'.data.accessToken, res'.data.refreshToken)
             /\ res'.data.refreshToken.email = res'.req.email
             /\ verifyAuth(cookie', Simple, WorkingRes).authorized
             /\ verifyAuth(cookie', Simple, WorkingRes).cause = "Authorized"]_vars

\* C30 witness: verifyAuth has renewed the access token of a client that
\* logged in and whose access token expired, and the client holds the new
\* one.
C30_Witness ==
    /\ pc = "done"
    /\ res.op = "getCategories"
    /\ Renewed(auth)
    /\ res.req.cookies.accessToken.expired
    /\ cookie.accessToken = auth.accessCookie
    /\ ~cookie.accessToken.expired
    /\ StoredBy(users, cookie.refreshToken)
----------------------------------------------------------------------------
(* Further properties of verifyAuth, checked under SpecCookieFault (the    *)
(* response sets the cookie or throws) and SpecAuth.                       *)

\* C31: verifyAuth sets a new accessToken cookie and the advisory message
\* only when it returns authorized: true; with an expired access token and a
\* valid refresh token whose claims fail the requirement, the decision is
\* unauthorized and no cookie is issued.
C31_CookieOnlyWhenAuthorized ==
    (pc = "done")
    => /\ (auth.cookiesSet # {} \/ auth.accessCookie.present \/ auth.message # "")
          => /\ auth.authorized
             /\ auth.cause = "Authorized"
             /\ auth.cookiesSet = {"accessToken"}
             /\ auth.message = RefreshedMessage
       /\ (/\ Expired(cookie.accessToken)
           /\ Valid(cookie.refreshToken) /\ Complete(cookie.refreshToken)
           /\ ~ReqHolds(info, cookie.refreshToken))
          => /\ ~auth.authorized
             /\ auth.cookiesSet = {}
             /\ ~auth.accessCookie.present
             /\ auth.message = ""

\* C31 witness: a renewal refused because the refresh token's role is not
\* Admin, on a response that would have set the cookie.
C31_Witness ==
    /\ pc = "done"
    /\ res.cookieErr = "none"
    /\ Expired(cookie.accessToken)
    /\ Valid(cookie.refreshToken) /\ Complete(cookie.refreshToken)
    /\ info.authType = "Admin"
    /\ cookie.refreshToken.role # "Admin"
    /\ ~auth.authorized
    /\ auth.cookiesSet = {}

RequirementCauses == {ReqCause(inf) : inf \in Requirements} \ {"none"}

\* C32: with both tokens validly signed and unexpired, a token lacking
\* username, email or role gives "Token is missing information" whatever
\* else holds; otherwise differing claims give "Mismatched users" whatever
\* the requirement; a requirement's own cause is returned only for complete
\* tokens with equal claims.
C32_CausePrecedence ==
    (Served /\ Valid(cookie.accessToken) /\ Valid(cookie.refreshToken))
    => /\ (~Complete(cookie.accessToken) \/ ~Complete(cookie.refreshToken))
          => ~auth.authorized /\ auth.cause = "Token is missing information"
       /\ (/\ Complete(cookie.accessToken) /\ Complete(cookie.refreshToken)
           /\ Mismatched(cookie.accessToken, cookie.refreshToken))
          => ~auth.authorized /\ auth.cause = "Mismatched users"
       /\ auth.cause \in RequirementCauses
          => /\ Complete(cookie.accessToken) /\ Complete(cookie.refreshToken)
             /\ ~Mismatched(cookie.accessToken, cookie.refreshToken)
             /\ auth.cause = ReqCause(info)

\* C32 witness: a token without a role, claims that differ and a requirement
\* that fails, all at once: the missing claim is what is reported.
C32_Witness ==
    /\ Served
    /\ Valid(cookie.accessToken) /\ Valid(cookie.refreshToken)
    /\ cookie.refreshToken.role = Missing
    /\ cookie.accessToken.username # cookie.refreshToken.username
    /\ cookie.accessToken.username # Missing
    /\ cookie.refreshToken.username # Missing
    /\ info.authType = "Admin"
    /\ cookie.accessToken.role = "Regular"
    /\ auth.cause = "Token is missing information"
----------------------------------------------------------------------------
(* SpecSnapshot: one client keeps its cookie jar while the User store      *)
(* changes under it: users register with either role, log in, log out and  *)
(* are deleted (a deletion followed by a registration with the other role  *)
(* changes the role of the subject of a token).                            *)

RegisterEither ==
    \E i \in 1..MaxPrincipals, role \in Roles :
        HandleFor(cookie, [username |-> NamePool[i], email |-> MailPool[i]],
                  registerWithRole(users, groups, transactions,
                                   IF role = "Admin" THEN "registerAdmin" ELSE "register",
                                   NamePool[i], MailPool[i], role, OwnPassword(MailPool[i])),
                  cookie)

LoginOwn ==
    \E e \in Emails :
        LET o == login(users, groups, transactions, e, OwnPassword(e), 0)
        IN  HandleFor(cookie, [email |-> e, password |-> OwnPassword(e)], o,
                      Stored(cookie, o.res.cookies))

\* The client logs out and keeps the tokens it held.
LogoutKeeping ==
    HandleFor(cookie, [client |-> "own"], logout(users, groups, transactions, cookie), cookie)

DeleteUserOther ==
    \E e \in Emails :
        HandleFor(NoCookies, [email |-> e],
                  deleteUser(users, groups, transactions, NoCookies, e), cookie)

NextSnapshot ==
    \/ RegisterEither
    \/ LoginOwn
    \/ LogoutKeeping
    \/ DeleteUserOther
    \/ GetCategoriesOwn
    \/ Expire
    \/ Received

SpecSnapshot == InitSession /\ [][NextSnapshot]_vars

\* The user the token speaks of, as the store has it now (Null if none).
Subject(us, t) == FindOne(us, {u \in Range(us) : u.email = t.email})

\* C33: the decision of verifyAuth depends on the two token cookies and the
\* requirement alone: whenever the store changes under a client that keeps
\* its tokens (a logout, a deletion, a registration with another role), the
\* decision for those tokens and any requirement is the same before and
\* after, and the decision a handler obtained is the one the tokens had in
\* the empty store.
C33_StoreIndependent ==
    [][/\ (cookie' = cookie)
          => \A inf \in Requirements :
                (verifyAuth(cookie, inf, WorkingRes))' = verifyAuth(cookie, inf, WorkingRes)
       /\ Handled({"getCategories"})
          => LET now == [authorized |-> auth'.authorized, cause |-> auth'.cause]
                 atInit == verifyAuth(res'.req.cookies, Simple, WorkingRes)
             IN  now = [authorized |-> atInit.authorized, cause |-> atInit.cause]]_vars

\* C33 witness: the subject of the client's tokens has been deleted and
\* registered again with another role, and the handler's verifyAuth call
\* authorized the tokens all the same.
C33_Witness ==
    /\ pc = "done"
    /\ res.op = "getCategories"
    /\ auth.authorized
    /\ Subject(users, cookie.refreshToken) # Null
    /\ Subject(users, cookie.refreshToken).role # cookie.refreshToken.role
    /\ ~Subject(users, cookie.refreshToken).refreshToken.present
----------------------------------------------------------------------------
(* SpecCaller: users register, log in at any time and log out, and         *)
(* createGroup requests carry the refresh token of any login, from an      *)
(* empty database.                                                         *)

RegisterOwn ==
    \E i \in 1..MaxPrincipals :
        HandleFor(NoCookies, [username |-> NamePool[i], email |-> MailPool[i]],
                  register(users, groups, transactions, NamePool[i], MailPool[i],
                           OwnPassword(MailPool[i])),
                  cookie)

LoginAt ==
    \E e \in Emails, now \in Clock :
        HandleFor(NoCookies, [email |-> e],
                  login(users, groups, transactions, e, OwnPassword(e), now), cookie)

CreateGroupOther ==
    \E ck \in OtherJars(users), n \in GroupNames, es \in EmailLists :
        HandleFor(ck, [name |-> n, emails |-> es],
                  createGroup(users, groups, transactions, ck, n, es), cookie)

NextCaller ==
    \/ RegisterOwn
    \/ LoginAt
    \/ LogoutOther
    \/ CreateGroupOther
    \/ Received

SpecCaller == InitSession /\ [][NextCaller]_vars

\* The token was issued to a user who now stores none.
LoggedOut(us, t) ==
    \E i \in 1..Len(us) : ~us[i].refreshToken.present /\ t \in TokensOf(us[i])

\* C34: createGroup creates a group or responds 200 only when the
\* refreshToken cookie is the one some user stores; a createGroup carrying a
\* refresh token that no user stores (its user logged out, or logged in
\* again at another time) fails on the caller lookup: it responds 500 and
\* creates no group.
C34_CallerMustBeStored ==
    [][Handled({"createGroup"})
          => LET refreshToken == res'.req.cookies.refreshToken
             IN  /\ (res'.status = 200 \/ groups' # groups)
                    => StoredBy(users, refreshToken)
                 /\ (/\ refreshToken.present
                     /\ (LoggedOut(users, refreshToken) \/ Superseded(users, refreshToken)))
                    => /\ ~StoredBy(users, refreshToken)
                       /\ res'.status = 500
                       /\ res'.error = "TypeError"
                       /\ groups' = groups]_vars

\* C34 witness: a createGroup with the token of a login that a later login
\* of the same user superseded has been refused, for a member list that
\* holds another registered user.
C34_Witness ==
    /\ pc = "done"
    /\ res.op = "createGroup"
    /\ Superseded(users, res.req.cookies.refreshToken)
    /\ \E i \in 1..Len(users) :
          /\ users[i].email \in Range(res.req.emails)
          /\ users[i].email # res.req.cookies.refreshToken.email
    /\ res.status = 500
    /\ groups = <<>>
----------------------------------------------------------------------------
(* SpecMembers: register, createGroup, addToGroup, removeFromGroup,        *)
(* deleteUser and deleteGroup, one request at a time, from a database that *)
(* holds users and groups of them.                                         *)

NextMembers ==
    \/ RegisterRq
    \/ CreateGroupRq
    \/ AddToGroupRq
    \/ RemoveFromGroupRq
    \/ DeleteUserRq
    \/ DeleteGroupRq
    \/ Respond

SpecMembers == InitGroups /\ [][NextMembers]_vars

UserEmails(us) == {us[i].email : i \in 1..Len(us)}

\* C35: every member email of every group is the email of a user in the
\* User store.
C35_MembersExist ==
    \A i \in 1..Len(groups) :
        \A j \in 1..Len(groups[i].members) :
            groups[i].members[j].email \in UserEmails(users)

\* C35 witness: a member of a group that keeps other members has been
\* deleted, and the group holds it no more.
C35_Witness ==
    /\ pc = "done"
    /\ res.op = "deleteUser"
    /\ res.status = 200
    /\ res.data.deletedFromGroup
    /\ groups # <<>>
    /\ res.req.email \notin UserEmails(users)
----------------------------------------------------------------------------
(* register and registerAdmin step by step (auth.js 35-57, 66-90): the     *)
(* awaits are User.findOne, bcrypt.hash and User.create.  The positions of *)
(* a request are "start", "checked", "hashed" and "done".                  *)

NewRegistration(op, username, email, password) ==
    [op |-> op, username |-> username, email |-> email, password |-> password,
     existingUser |-> Null, hashedPassword |-> Null, log |-> <<>>,
     status |-> 0, error |-> "", data |-> NoData]

\* User.create on a collection with a unique index on username and one on
\* email: the document is inserted, or the insert fails on a duplicate key.
UserCreate(us, doc) ==
    IF \E i \in 1..Len(us) : us[i].email = doc.email \/ us[i].username = doc.username
        THEN [err |-> "E11000 duplicate key error", users |-> us]
    ELSE [err |-> "none", users |-> Append(us, doc)]

Reached(position, r, us) == [pc |-> position, r |-> r, users |-> us]

Replied(r, us, status, error, data) ==
    Reached("done", [r EXCEPT !.status = status, !.error = error, !.data = data], us)

\* Variant: the catch block reports success.
registerStepCatchReports200(position, r, us) ==
    CASE position = "start" ->
            Reached("checked",
                    Awaited([r EXCEPT !.existingUser =
                                FindOne(us, {u \in Range(us) :
                                                u.email = r.email \/ u.username = r.username})],
                            "User.findOne", <<r.email, r.username>>),
                    us)
      [] position = "checked" ->
            IF r.existingUser # Null
                THEN Replied(r, us, 400, "you are already registered", NoData)
            ELSE Reached("hashed",
                         Awaited([r EXCEPT !.hashedPassword = bcryptHash(r.password)],
                                 "bcrypt.hash", <<>>),
                         us)
      [] position = "hashed" ->
            LET role == IF r.op = "registerAdmin" THEN "Admin" ELSE "Regular"
                c == UserCreate(us, UserDoc(r.username, r.email, role, r.password))
                r1 == Awaited(r, "User.create", <<r.email, r.username>>)
            IN  IF c.err # "none"
                    THEN Replied(r1, Append(us, UserDoc(r.username, r.email, role, r.password)),
                                 200, "", [message |-> "user added succesfully"])
                ELSE Replied(r1, c.users, 200, "", [message |-> "user added succesfully"])

\* register / registerAdmin on a well-formed body.
registerStep(position, r, us) ==
    CASE position = "start" ->
            \* lines 45, 76
            Reached("checked",
                    Awaited([r EXCEPT !.existingUser =
                                FindOne(us, {u \in Range(us) :
                                                u.email = r.email \/ u.username = r.username})],
                            "User.findOne", <<r.email, r.username>>),
                    us)
      [] position = "checked" ->
            IF r.existingUser # Null
                \* lines 46, 77
                THEN Replied(r, us, 400, "you are already registered", NoData)
            \* lines 47, 78
            ELSE Reached("hashed",
                         Awaited([r EXCEPT !.hashedPassword = bcryptHash(r.password)],
                                 "bcrypt.hash", <<>>),
                         us)
      [] position = "hashed" ->
            \* lines 48-53, 79-85; an error is caught at lines 54, 87
            LET role == IF r.op = "registerAdmin" THEN "Admin" ELSE "Regular"
                c == UserCreate(us, UserDoc(r.username, r.email, role, r.password))
                r1 == Awaited(r, "User.create", <<r.email, r.username>>)
            IN  IF c.err # "none"
                    THEN Replied(r1, us, 500, c.err, NoData)
                ELSE Replied(r1, c.users, 200, "",
                             [message |-> IF r.op = "registerAdmin"
                                             THEN "admin added succesfully"
                                          ELSE "user added succesfully"])

----------------------------------------------------------------------------
(* SpecRegisterRace: two registrations in flight at once, on a database    *)
(* that holds none or some of the principals.  res is the sequence of the  *)
(* requests in flight and pc the sequence of their positions.              *)

InitRegisterRace ==
    /\ \E n \in 0..MaxPrincipals : users = SeedUsers(n)
    /\ groups = <<>>
    /\ transactions = {}
    /\ categories = <<>>
    /\ cookie = NoCookies
    /\ info = NoInfo
    /\ auth = NoAuth
    /\ res = <<NoReq, NoReq>>
    /\ pc = <<"idle", "idle">>

ArriveRegister ==
    \E i \in 1..Len(pc), op \in {"register", "registerAdmin"},
       u \in Usernames, e \in Emails :
        Arrive(i, NewRegistration(op, u, e, OwnPassword(e)))

StepRegister ==
    \E i \in 1..Len(pc) :
        /\ pc[i] \notin {"idle", "done"}
        /\ LET s == registerStep(pc[i], res[i], users)
           IN  /\ pc' = [pc EXCEPT ![i] = s.pc]
               /\ res' = [res EXCEPT ![i] = s.r]
               /\ users' = s.users
        /\ UNCHANGED <<groups, transactions, categories, cookie, info, auth>>

NextRegisterRace ==
    \/ ArriveRegister
    \/ StepRegister

SpecRegisterRace == InitRegisterRace /\ [][NextRegisterRace]_vars

Conflicting(r1, r2) == r1.email = r2.email \/ r1.username = r2.username

\* The two requests passed their existence checks before either created.
Interleaved(r1, r2) ==
    /\ r1.existingUser = Null /\ r2.existingUser = Null
    /\ Len(r1.log) = 3 /\ Len(r2.log) = 3

\* C36: of two registrations with the same email or the same username that
\* are in flight together, at most one responds 200, and the store never
\* holds two users with one email or one username.
C36_RegisterRace ==
    /\ UniqueUsers(users)
    /\ (pc[1] = "done" /\ pc[2] = "done" /\ Conflicting(res[1], res[2]))
       => ~(res[1].status = 200 /\ res[2].status = 200)

\* C36 witness: both requests found no user and went on to create; one
\* created the user and the other's create failed.
C36_Witness ==
    /\ pc = <<"done", "done">>
    /\ Conflicting(res[1], res[2])
    /\ res[1].email # res[2].email
    /\ Interleaved(res[1], res[2])
    /\ res[1].status = 200
    /\ res[2].status = 500
    /\ Len(users) = 1
----------------------------------------------------------------------------
(* SpecConcurrent: an addToGroup request in flight together with a         *)
(* deleteGroup or a removeFromGroup request, step by step, on a database   *)
(* that holds groups.  res is the sequence of the two requests and pc the  *)
(* sequence of their positions.                                            *)

\* deleteGroup (users.js 505-538): its one await is Group.findOneAndDelete.
deleteGroupStep(position, r, us, gs) ==
    LET group == FindOne(gs, {g \in Range(gs) : g.name = r.name})
        r1 == Awaited([r EXCEPT !.group = group], "Group.findOneAndDelete", <<r.name>>)
    IN  IF group = Null
            THEN Answer(r1, gs, 400, "Group does not exists", NoData)
        ELSE Answer(r1, DeleteFirst(gs, {g \in Range(gs) : g.name = r.name}), 200, "",
                    [message |-> "Group delete successfully"])

ArriveAdd ==
    \E n \in GroupNames, es \in EmailLists :
        Arrive(1, NewReq("addToGroup", NoCookies, n, es))

ArriveRemove ==
    \E n \in GroupNames, es \in EmailLists :
        Arrive(2, NewReq("removeFromGroup", NoCookies, n, es))

ArriveDeleteGroup ==
    \E n \in GroupNames :
        Arrive(2, NewReq("deleteGroup", NoCookies, n, <<>>))

StepConcurrent ==
    \E i \in 1..Len(pc) :
        /\ pc[i] \notin {"idle", "done"}
        /\ LET s == IF res[i].op = "deleteGroup"
                        THEN deleteGroupStep(pc[i], res[i], users, groups)
                    ELSE handlerStep(pc[i], res[i], users, groups)
           IN  /\ pc' = [pc EXCEPT ![i] = s.pc]
               /\ res' = [res EXCEPT ![i] = s.r]
               /\ groups' = s.groups
        /\ UNCHANGED <<users, transactions, categories, cookie, info, auth>>

NextConcurrent ==
    \/ ArriveAdd
    \/ ArriveRemove
    \/ ArriveDeleteGroup
    \/ StepConcurrent

SpecConcurrent == InitRace /\ [][NextConcurrent]_vars

\* The other request removed the group this request found.
RemovedMeanwhile(r, other, gs) ==
    /\ r.group # Null
    /\ other.op \in {"deleteGroup", "removeFromGroup"}
    /\ other.name = r.name
    /\ other.status = 200
    /\ Issued(other, {"Group.findOneAndDelete"}) # {}
    /\ ~\E k \in 1..Len(gs) : gs[k].name = r.name

\* C37: an addToGroup request that found its group, and whose group a
\* deleteGroup or an emptying removeFromGroup removed before it ended, ends
\* with 200 or 400 and never with 500.
C37_AddSurvivesRemoval ==
    [][(/\ res[1].op = "addToGroup"
        /\ pc[1] \notin {"idle", "done"}
        /\ pc'[1] = "done"
        /\ pc[2] = "done"
        /\ RemovedMeanwhile(res[1], res[2], groups))
       => res'[1].status \in {200, 400}]_vars
----------------------------------------------------------------------------
(* SpecCategories: the category handlers on a database that holds          *)
(* categories and transactions (no createCategory of this code stores      *)
(* one), called by an administrator or by a regular user, one request at a *)
(* time.                                                                   *)

\* The categories in the order of their creation.
SeedCategories ==
    {cats \in UNION {[1..n -> Types] : n \in 0..Cardinality(Types)} :
        \A i, j \in 1..Len(cats) : cats[i] = cats[j] => i = j}

SeedTransactions ==
    {ts \in SUBSET [id : 1..MaxTransactions, username : {NamePool[1]}, type : Types] :
        /\ Cardinality(ts) <= MaxTransactions
        /\ \A s, t \in ts : s.id = t.id => s = t}

\* The cookies of the callers: none, the pair of an administrator or of a
\* regular user, with the access token fresh or expired.
CategoryCallers ==
    {NoCookies} \cup
    {[accessToken |-> a, refreshToken |-> jwtSign(NamePool[1], MailPool[1], "id1", role)] :
        <<a, role>> \in
            UNION {{jwtSign(NamePool[1], MailPool[1], "id1", role),
                    Aged(jwtSign(NamePool[1], MailPool[1], "id1", role))} \X {role} :
                   role \in Roles}}

InitCategories ==
    /\ users = <<>>
    /\ groups = <<>>
    /\ \E cats \in SeedCategories :
          categories = [i \in 1..Len(cats) |-> [type |-> cats[i], color |-> "c1"]]
    /\ transactions \in SeedTransactions
    /\ cookie = NoCookies
    /\ info = NoInfo
    /\ auth = NoAuth
    /\ res = NoRes
    /\ pc = "idle"

CreateCategoryRq ==
    \E ck \in CategoryCallers, type \in Types, color \in Colors :
        HandleCategory(ck, Admin, [type |-> type, color |-> color],
                       createCategory(categories, transactions,
                                      verifyAuth(ck, Admin, WorkingRes), type, color))

\* The lists of types of a request body: stored types and one no category has.
RequestedTypes == UNION {[1..n -> Types \cup {"t9"}] : n \in 1..2}

DeleteCategoryRq ==
    \E ck \in CategoryCallers, types \in RequestedTypes :
        HandleCategory(ck, Admin, [types |-> types],
                       deleteCategory(categories, transactions,
                                      verifyAuth(ck, Admin, WorkingRes), types))

NextCategories ==
    \/ CreateCategoryRq
    \/ DeleteCategoryRq
    \/ Respond

SpecCategories == InitCategories /\ [][NextCategories]_vars

StoredTypes(cats) == {cats[i].type : i \in 1..Len(cats)}

\* C38: a deleteCategory of an administrator responds 400 and deletes
\* nothing if a listed type does not exist or at most one category is
\* stored; it never removes the last category; after a successful deletion
\* a category remains and every transaction has the type of a remaining
\* category, those of a deleted type having been reassigned.
C38_DeleteCategory ==
    [][(Handled({"deleteCategory"}) /\ auth'.authorized)
          => LET types == Range(res'.req.types)
                 deleted == StoredTypes(categories) \ StoredTypes(categories')
             IN  /\ (types \ StoredTypes(categories) # {} \/ Len(categories) <= 1)
                    => /\ res'.status = 400
                       /\ categories' = categories
                       /\ transactions' = transactions
                 /\ Len(categories) >= 1 => Len(categories') >= 1
                 /\ res'.status = 200
                    => /\ Len(categories') >= 1
                       /\ deleted # {}
                       /\ \A t \in transactions' : t.type \notin deleted
                       /\ \A t \in transactions :
                             \E t2 \in transactions' :
                                /\ t2.id = t.id
                                /\ t2.type = IF t.type \in deleted
                                                THEN categories'[1].type
                                             ELSE t.type]_vars

====
